---------------------------- MODULE Spec2Model ----------------------------
(***************************************************************************)
(* A model of the keeppoker Texas Hold'em engine: the pot ledger           *)
(* (Pot / PotManager, pot.js), the table state machine (PokerGameManager,  *)
(* poker-manager.js), the player record (PokerPlayer, jogador.js) and the  *)
(* hand evaluator (HandEvaluator), the deck (PokerDeck), the dealer of the  *)
(* second engine (PokerDealer / PokerGameEngine) in both of its copies,    *)
(* and the tournament (PokerTournament, torneio.js).                       *)
(*                                                                         *)
(* The specifications share the variables:                                 *)
(*   SpecPot     - one Pot object driven through its methods;              *)
(*   SpecSplit   - Pot.calculateDistribution and the function              *)
(*                 distributePot applied to bounded inputs;                *)
(*   SpecLedger  - one PotManager driven through its methods, from         *)
(*                 `new PotManager()` or from PotManager.fromJSON;         *)
(*   SpecGame    - one PokerGameManager with its PlayerManager and         *)
(*                 PotManager;                                             *)
(*   SpecTurn    - advanceTurn on a table in the middle of a round;        *)
(*   SpecAction  - processPlayerAction applied once to a table in the      *)
(*                 middle of a round;                                      *)
(*   SpecHands   - HandEvaluator.evaluate applied to five to seven cards;  *)
(*   SpecCompare - compareHands and determineWinners applied to two        *)
(*                 evaluated hands;                                        *)
(*   SpecDeck    - one PokerDeck driven through its methods;               *)
(*   SpecTimer   - a table in the middle of a round with its action timer; *)
(*   SpecDealer  - one PokerGameEngine with its PokerDealer, the deal of   *)
(*                 the hole cards being split at its awaits.               *)
(*   SpecHand    - one PokerGameManager from its construction on, the     *)
(*                 players acting whenever they can;                       *)
(*   SpecSidePots - calculateSidePots applied to bounded bets;             *)
(*   SpecEngine  - one PokerGameEngine with the PokerDealer that           *)
(*                 poker-manager.js defines;                               *)
(*   SpecTournament - one PokerTournament driven through its methods.      *)
(* A JavaScript call that never returns (a loop whose body changes         *)
(* nothing while its condition stays true) leaves the object in the state  *)
(* the loop found it in, with pc naming the loop.                          *)
(***************************************************************************)
EXTENDS Integers, Sequences, FiniteSets, TLC

Players == {"A", "B", "C"}

\* ---------------------------------------------------------------- bounds
MaxAmount == 2          \* largest single amount handed to a standalone Pot
MaxPotTotal == 5        \* cap on a standalone Pot's amount
MaxSplit == 7           \* pot amounts 0..MaxSplit are handed to the split functions
MaxStrength == 1        \* hand strengths 0..MaxStrength in distributePot's handStrengths
MaxStake == 300         \* cap on what one player posts into one ledger between resets
MaxShowdownCalls == 2   \* distributeAllPots calls made on one ledger between resets
ComparedCards == 13     \* the first cards of DeckCards that a compared hand is drawn from
MaxExtraCards == 1      \* entries beyond one per card that a PokerDeck may hold when it is restored
ActionTime == 2         \* config.actionTime: the seconds a player has to act (30 by default)
MaxOverrun == 1         \* ticks of an interval that goes on after the time has run out
MaxHistory == 4         \* cap on the actions in PokerDealer.handHistory
MaxHands == 2           \* cap on PokerGameEngine.handNumber

\* ------------------------------------------------------------- utilities
Min(a, b) == IF a < b THEN a ELSE b

Max(a, b) == IF a > b THEN a ELSE b

RECURSIVE SumOver(_, _)
SumOver(f, S) ==
    IF S = {} THEN 0
    ELSE LET x == CHOOSE y \in S : TRUE IN f[x] + SumOver(f, S \ {x})

RECURSIVE SumSeq(_)
SumSeq(s) == IF s = <<>> THEN 0 ELSE Head(s) + SumSeq(Tail(s))

Range(s) == {s[i] : i \in DOMAIN s}

\* Sequences over S without repetition, of length at most n.
DistinctSeqs(S, n) ==
    {s \in UNION {[1..k -> S] : k \in 0..n} :
        \A i, j \in DOMAIN s : i # j => s[i] # s[j]}

\* Array.prototype.filter
RECURSIVE Filter(_, _)
Filter(s, S) ==
    IF s = <<>> THEN <<>>
    ELSE IF Head(s) \in S THEN <<Head(s)>> \o Filter(Tail(s), S)
    ELSE Filter(Tail(s), S)

\* ----------------------------------------------------- PlayerContribution
\* class PlayerContribution (contributionsByRound is an audit tag only and
\* is read by nothing but toJSON; it is not carried).
NewContribution == [amount |-> 0, isEligible |-> TRUE, hasWon |-> FALSE, wonAmount |-> 0]

\* ------------------------------------------------------------------- Pot
\* new Pot(id, level); the id is 'main' for level 0 and 'side-N' for level N,
\* so the level stands for both. playerContributions is a Map: a function
\* whose domain is the set of player ids that have an entry.
NewPot(level) ==
    [level |-> level, amount |-> 0,
     playerContributions |-> [p \in {} |-> NewContribution],
     eligiblePlayers |-> {}, winners |-> <<>>,
     isDistributed |-> FALSE, isLocked |-> FALSE]

\* Pot.getPlayerContribution
GetPlayerContribution(pot, p) ==
    IF p \in DOMAIN pot.playerContributions
    THEN pot.playerContributions[p].amount ELSE 0

\* What a Pot's contributions add up to.
ContributionSum(pot) ==
    SumOver([p \in DOMAIN pot.playerContributions |-> pot.playerContributions[p].amount],
            DOMAIN pot.playerContributions)

\* Mutant of Pot.addPlayerContribution: the line `this.amount += amount` is lost.
AddPlayerContributionNoAmount(pot, p, amount) ==
    IF pot.isLocked THEN pot
    ELSE LET old == IF p \in DOMAIN pot.playerContributions
                    THEN pot.playerContributions[p] ELSE NewContribution
             new == [old EXCEPT !.amount = old.amount + amount]
         IN [pot EXCEPT
               !.playerContributions =
                   [q \in DOMAIN pot.playerContributions \cup {p} |->
                       IF q = p THEN new ELSE pot.playerContributions[q]],
               !.eligiblePlayers = IF amount > 0 THEN @ \cup {p} ELSE @]

\* Pot.addPlayerContribution: the pot afterwards.
AddPlayerContribution(pot, p, amount) ==
    IF pot.isLocked THEN pot
    ELSE LET old == IF p \in DOMAIN pot.playerContributions
                    THEN pot.playerContributions[p] ELSE NewContribution
             new == [old EXCEPT !.amount = old.amount + amount]
         IN [pot EXCEPT
               !.playerContributions =
                   [q \in DOMAIN pot.playerContributions \cup {p} |->
                       IF q = p THEN new ELSE pot.playerContributions[q]],
               !.amount = @ + amount,
               !.eligiblePlayers = IF amount > 0 THEN @ \cup {p} ELSE @]

\* Mutant of Pot.removeEligiblePlayer: the player's chips leave the pot too.
RemoveEligiblePlayerAndChips(pot, p) ==
    [pot EXCEPT
       !.eligiblePlayers = @ \ {p},
       !.amount = @ - GetPlayerContribution(pot, p),
       !.playerContributions =
           [q \in DOMAIN pot.playerContributions |->
               IF q = p THEN [pot.playerContributions[q] EXCEPT !.isEligible = FALSE,
                                                                !.amount = 0]
               ELSE pot.playerContributions[q]]]

\* Pot.removeEligiblePlayer
RemoveEligiblePlayer(pot, p) ==
    [pot EXCEPT
       !.eligiblePlayers = @ \ {p},
       !.playerContributions =
           [q \in DOMAIN pot.playerContributions |->
               IF q = p THEN [pot.playerContributions[q] EXCEPT !.isEligible = FALSE]
               ELSE pot.playerContributions[q]]]

\* Mutant of Pot.calculateDistribution: the remainder goes to the last winners.
CalculateDistributionLastFirst(potAmount, winnerPlayers) ==
    LET winnersCount == Len(winnerPlayers)
        baseAmount == potAmount \div winnersCount
        remainder == potAmount % winnersCount
    IN [i \in 1..winnersCount |->
           [playerId |-> winnerPlayers[i],
            amount |-> baseAmount + (IF winnersCount - i < remainder THEN 1 ELSE 0)]]

\* Pot.calculateDistribution: a sequence of [playerId, amount] in the order
\* of winnerPlayers (percentage, isSoleWinner, handStrength are display data).
CalculateDistribution(potAmount, winnerPlayers) ==
    IF Len(winnerPlayers) = 1
    THEN <<[playerId |-> winnerPlayers[1], amount |-> potAmount]>>
    ELSE LET winnersCount == Len(winnerPlayers)
             baseAmount == potAmount \div winnersCount
             remainder == potAmount % winnersCount
         IN [i \in 1..winnersCount |->
                [playerId |-> winnerPlayers[i],
                 amount |-> baseAmount + (IF i - 1 < remainder THEN 1 ELSE 0)]]

\* Pot.distributeToWinners: [pot |-> the pot afterwards, ret |-> the
\* distribution returned].
DistributeToWinners(pot, winnerPlayers) ==
    IF pot.isDistributed \/ pot.amount <= 0 \/ Len(winnerPlayers) = 0
    THEN [pot |-> pot, ret |-> <<>>]
    ELSE LET distribution == CalculateDistribution(pot.amount, winnerPlayers)
             \* distribution.forEach: a later entry for the same player overwrites
             wonBy(q) == LET idx == {i \in DOMAIN distribution : distribution[i].playerId = q}
                         IN IF idx = {} THEN -1
                            ELSE distribution[CHOOSE i \in idx : \A j \in idx : j <= i].amount
         IN [pot |-> [pot EXCEPT
                        !.winners = winnerPlayers,
                        !.isDistributed = TRUE,
                        !.isLocked = TRUE,
                        !.playerContributions =
                            [q \in DOMAIN pot.playerContributions |->
                                IF wonBy(q) >= 0
                                THEN [pot.playerContributions[q] EXCEPT
                                        !.hasWon = TRUE, !.wonAmount = wonBy(q)]
                                ELSE pot.playerContributions[q]]],
             ret |-> distribution]

\* Pot.reset
ResetPot(pot) == NewPot(pot.level)

\* ---------------------------------------------------- utility functions
\* handStrengths is an object: a function whose domain is the set of keys.
\* handStrengths[w] || 0
StrengthOrZero(handStrengths, w) ==
    IF w \in DOMAIN handStrengths THEN handStrengths[w] ELSE 0

\* Array.prototype.sort with (a, b) => strengthB - strengthA: a stable sort,
\* larger strength first (insertion of each element after the last element
\* that is not smaller).
RECURSIVE InsertByStrength(_, _, _)
InsertByStrength(sorted, w, handStrengths) ==
    IF sorted = <<>> THEN <<w>>
    ELSE IF StrengthOrZero(handStrengths, Head(sorted)) >= StrengthOrZero(handStrengths, w)
         THEN <<Head(sorted)>> \o InsertByStrength(Tail(sorted), w, handStrengths)
         ELSE <<w>> \o sorted

RECURSIVE SortByStrength(_, _)
SortByStrength(ws, handStrengths) ==
    IF ws = <<>> THEN <<>>
    ELSE InsertByStrength(SortByStrength(SubSeq(ws, 1, Len(ws) - 1), handStrengths),
                          ws[Len(ws)], handStrengths)

\* function distributePot(potAmount, winners, handStrengths): a sequence of
\* [playerId, amount] (isSplit and splitCount are display data).
DistributePot(potAmount, winners, handStrengths) ==
    IF Len(winners) = 0 THEN <<>>
    ELSE LET sorted == SortByStrength(winners, handStrengths)
             \* handStrengths[w] === topStrength, where a missing key is undefined
             sameAsTop(w) ==
                 IF sorted[1] \in DOMAIN handStrengths
                 THEN w \in DOMAIN handStrengths /\ handStrengths[w] = handStrengths[sorted[1]]
                 ELSE w \notin DOMAIN handStrengths
             sortedWinners ==
                 IF DOMAIN handStrengths # {}
                 THEN Filter(sorted, {w \in Range(sorted) : sameAsTop(w)})
                 ELSE winners
             winnerCount == Len(sortedWinners)
             baseAmount == potAmount \div winnerCount
             remainder == potAmount % winnerCount
         IN [i \in 1..winnerCount |->
                [playerId |-> sortedWinners[i],
                 amount |-> baseAmount + (IF i - 1 < remainder THEN 1 ELSE 0)]]

\* ------------------------------------------------------------ PotManager
\* Infinity, the default of addBet's playerAllInAmount: above every chip
\* amount of the model.
Infinity == 1000000

\* new PotManager() (history is a log and currentRound only tags the audit
\* fields; neither is carried). lastDistribution is <<>> for null, <<d>> for d.
NewPotManager ==
    [mainPot |-> NewPot(0), sidePots |-> <<>>, totalAmount |-> 0,
     isShowdown |-> FALSE, lastDistribution |-> <<>>]

\* PotManager.getAllPots
GetAllPots(pm) == <<pm.mainPot>> \o pm.sidePots

\* PotManager.updateTotalAmount
UpdateTotalAmount(pm) ==
    [pm EXCEPT !.totalAmount =
        pm.mainPot.amount + SumSeq([i \in DOMAIN pm.sidePots |-> pm.sidePots[i].amount])]

\* Pot.getMaxContribution as inlined in getPotSpaceForPlayer
MaxContributionOf(pot) ==
    LET amounts == {pot.playerContributions[q].amount : q \in DOMAIN pot.playerContributions}
                   \cup {0}
    IN CHOOSE m \in amounts : \A a \in amounts : a <= m

\* PotManager.getPotSpaceForPlayer
GetPotSpaceForPlayer(p, pot, playerAllInAmount) ==
    IF playerAllInAmount <= 0 THEN 0
    ELSE LET currentContribution == GetPlayerContribution(pot, p)
             spaceInPot == MaxContributionOf(pot) - currentContribution
             spaceByAllIn == playerAllInAmount - currentContribution
         IN Min(spaceInPot, spaceByAllIn)

\* PotManager.createNewSidePot: the Pot returned (the caller decides whether
\* it is pushed onto sidePots).
CreateNewSidePot(pm) ==
    LET sidePotNumber == Len(pm.sidePots) + 1
        previousPot == IF sidePotNumber = 1 THEN pm.mainPot
                       ELSE pm.sidePots[sidePotNumber - 1]
    IN [NewPot(sidePotNumber) EXCEPT
          !.eligiblePlayers =
              {q \in DOMAIN previousPot.playerContributions :
                  previousPot.playerContributions[q].amount > 0}]

\* addBet, lines 285-292: the main pot's share. st is the running state of
\* the call: [pm, remainingAmount, potsAffected].
AddBetMain(st, p, playerAllInAmount) ==
    LET mainPotSpace == GetPotSpaceForPlayer(p, st.pm.mainPot, playerAllInAmount)
        amountToMain == Min(st.remainingAmount, mainPotSpace)
    IN IF amountToMain > 0
       THEN [pm |-> [st.pm EXCEPT !.mainPot = AddPlayerContribution(@, p, amountToMain)],
             remainingAmount |-> st.remainingAmount - amountToMain,
             potsAffected |-> Append(st.potsAffected, [potId |-> 0, amount |-> amountToMain])]
       ELSE st

\* addBet, lines 295-306: the existing side pots from index i on, in order.
RECURSIVE AddBetSide(_, _, _, _)
AddBetSide(st, i, p, playerAllInAmount) ==
    IF i > Len(st.pm.sidePots) \/ st.remainingAmount <= 0 THEN st
    ELSE LET sidePot == st.pm.sidePots[i]
             potSpace == GetPotSpaceForPlayer(p, sidePot, playerAllInAmount)
             amountToSide == Min(st.remainingAmount, potSpace)
             next == IF amountToSide > 0
                     THEN [pm |-> [st.pm EXCEPT !.sidePots[i] =
                                      AddPlayerContribution(@, p, amountToSide)],
                           remainingAmount |-> st.remainingAmount - amountToSide,
                           potsAffected |-> Append(st.potsAffected,
                                               [potId |-> sidePot.level, amount |-> amountToSide])]
                     ELSE st
         IN AddBetSide(next, i + 1, p, playerAllInAmount)

\* addBet, lines 310-319: one pass through the body of `while (remainingAmount > 0)`.
AddBetWhileBody(st, p, playerAllInAmount) ==
    LET newSidePot == CreateNewSidePot(st.pm)
        potSpace == GetPotSpaceForPlayer(p, newSidePot, playerAllInAmount)
        amountToNewPot == Min(st.remainingAmount, potSpace)
    IN IF amountToNewPot > 0
       THEN [pm |-> [st.pm EXCEPT !.sidePots =
                        Append(@, AddPlayerContribution(newSidePot, p, amountToNewPot))],
             remainingAmount |-> st.remainingAmount - amountToNewPot,
             potsAffected |-> Append(st.potsAffected,
                                 [potId |-> newSidePot.level, amount |-> amountToNewPot])]
       ELSE st

\* addBet, line 309: the while loop. A pass that leaves the running state as
\* it found it, with remainingAmount still positive, repeats for ever.
RECURSIVE AddBetWhile(_, _, _)
AddBetWhilePass(st, next, p, playerAllInAmount) ==
    IF next = st THEN [st |-> st, returns |-> FALSE]
    ELSE AddBetWhile(next, p, playerAllInAmount)

AddBetWhile(st, p, playerAllInAmount) ==
    IF st.remainingAmount <= 0 THEN [st |-> st, returns |-> TRUE]
    ELSE AddBetWhilePass(st, AddBetWhileBody(st, p, playerAllInAmount), p, playerAllInAmount)

\* PotManager.addBet: [pm |-> the ledger afterwards, returns |-> whether the
\* call returns, added, pots |-> the breakdown returned].
\* addBet, lines 321-329: what the call leaves once the loops are done with
\* it (end is AddBetWhile's result); updateTotalAmount runs only if they return.
AddBetReturn(amount, end) ==
    [pm |-> IF end.returns THEN UpdateTotalAmount(end.st.pm) ELSE end.st.pm,
     returns |-> end.returns,
     added |-> amount - end.st.remainingAmount, pots |-> end.st.potsAffected]

AddBet(pm, p, amount, playerAllInAmount) ==
    IF amount <= 0 THEN [pm |-> pm, returns |-> TRUE, added |-> 0, pots |-> <<>>]
    ELSE AddBetReturn(amount,
             AddBetWhile(
                 AddBetSide(
                     AddBetMain([pm |-> pm, remainingAmount |-> amount, potsAffected |-> <<>>],
                                p, playerAllInAmount),
                     1, p, playerAllInAmount),
                 p, playerAllInAmount))

\* Mutant of PotManager.playerFolds: the side pots are forgotten.
PlayerFoldsMainOnly(pm, p) ==
    [pm EXCEPT !.mainPot = RemoveEligiblePlayer(@, p)]

\* PotManager.playerFolds
PlayerFolds(pm, p) ==
    [pm EXCEPT
       !.mainPot = RemoveEligiblePlayer(@, p),
       !.sidePots = [i \in DOMAIN pm.sidePots |-> RemoveEligiblePlayer(pm.sidePots[i], p)]]

\* PotManager.playerAllIn -> recalculateForAllIn: handleExcessContribution
\* builds a side pot and drops it, so only updateTotalAmount has an effect.
PlayerAllIn(pm, p, allInAmount) == UpdateTotalAmount(pm)

\* PotManager.resetForNewHand
ResetForNewHand(pm) ==
    [mainPot |-> ResetPot(pm.mainPot), sidePots |-> <<>>, totalAmount |-> 0,
     isShowdown |-> FALSE, lastDistribution |-> <<>>]

\* distributeAllPots, lines 481-487: distribution.winners and totalDistributed
\* after one pot's payouts.
RECURSIVE AddPayouts(_, _)
AddPayouts(distribution, potDistribution) ==
    IF potDistribution = <<>> THEN distribution
    ELSE LET d == Head(potDistribution)
             before == IF d.playerId \in DOMAIN distribution.winners
                       THEN distribution.winners[d.playerId] ELSE 0
             next == [distribution EXCEPT
                        !.winners = [q \in DOMAIN distribution.winners \cup {d.playerId} |->
                                        IF q = d.playerId THEN before + d.amount
                                        ELSE distribution.winners[q]],
                        !.totalDistributed = @ + d.amount]
         IN AddPayouts(next, Tail(potDistribution))

\* PotManager.getAllPots()[i] for i = 0 (main), 1.. (side pots)
PotAt(pm, i) == IF i = 0 THEN pm.mainPot ELSE pm.sidePots[i]

SetPotAt(pm, i, pot) ==
    IF i = 0 THEN [pm EXCEPT !.mainPot = pot] ELSE [pm EXCEPT !.sidePots[i] = pot]

\* distributeAllPots, lines 464-495: the loop over allPots from index i on.
\* st is [pm, distribution].
RECURSIVE DistributeFrom(_, _, _)
DistributeFrom(st, i, winningPlayersByStrength) ==
    IF i > Len(st.pm.sidePots) THEN st
    ELSE LET pot == PotAt(st.pm, i)
             eligibleWinners == Filter(winningPlayersByStrength, pot.eligiblePlayers)
         IN IF pot.amount <= 0 \/ Len(eligibleWinners) = 0
            THEN DistributeFrom(st, i + 1, winningPlayersByStrength)
            ELSE LET paid == DistributeToWinners(pot, eligibleWinners)
                     d1 == AddPayouts(st.distribution, paid.ret)
                     d2 == [d1 EXCEPT !.pots =
                              Append(@, [potId |-> pot.level, amount |-> pot.amount,
                                         distribution |-> paid.ret,
                                         eligibleWinners |-> eligibleWinners])]
                 IN DistributeFrom([pm |-> SetPotAt(st.pm, i, paid.pot), distribution |-> d2],
                                   i + 1, winningPlayersByStrength)

\* The distribution object distributeAllPots starts from (the timestamp is
\* not carried).
EmptyDistribution ==
    [pots |-> <<>>, totalDistributed |-> 0, winners |-> [q \in {} |-> 0]]

\* Mutant of PotManager.distributeAllPots: the isShowdown guard is lost.
DistributeAllPotsUnguarded(pm, winningPlayersByStrength) ==
    LET end == DistributeFrom([pm |-> [pm EXCEPT !.isShowdown = TRUE],
                               distribution |-> EmptyDistribution],
                              0, winningPlayersByStrength)
    IN [pm |-> [end.pm EXCEPT !.lastDistribution = <<end.distribution>>],
        ret |-> <<end.distribution>>]

\* PotManager.distributeAllPots: [pm |-> the ledger afterwards, ret |-> what
\* is returned, <<>> for null and <<d>> for a distribution d].
DistributeAllPots(pm, winningPlayersByStrength) ==
    IF pm.isShowdown THEN [pm |-> pm, ret |-> pm.lastDistribution]
    ELSE LET end == DistributeFrom([pm |-> [pm EXCEPT !.isShowdown = TRUE],
                                    distribution |-> EmptyDistribution],
                                   0, winningPlayersByStrength)
         IN [pm |-> [end.pm EXCEPT !.lastDistribution = <<end.distribution>>],
             ret |-> <<end.distribution>>]

\* PotManager.toJSON restricted to what fromJSON reads back: a snapshot is
\* [mainPot, sidePots, totalAmount, isShowdown, lastDistribution] with each
\* pot's Map under the key `contributions`.
PotToJSON(pot) ==
    [level |-> pot.level, amount |-> pot.amount,
     contributions |-> pot.playerContributions,
     eligiblePlayers |-> pot.eligiblePlayers, winners |-> pot.winners,
     isDistributed |-> pot.isDistributed, isLocked |-> pot.isLocked]

PotFromJSON(potData) ==
    [level |-> potData.level, amount |-> potData.amount,
     playerContributions |-> potData.contributions,
     eligiblePlayers |-> potData.eligiblePlayers, winners |-> potData.winners,
     isDistributed |-> potData.isDistributed, isLocked |-> potData.isLocked]

\* PotManager.fromJSON
PotManagerFromJSON(jsonData) ==
    [mainPot |-> PotFromJSON(jsonData.mainPot),
     sidePots |-> [i \in DOMAIN jsonData.sidePots |-> PotFromJSON(jsonData.sidePots[i])],
     totalAmount |-> jsonData.totalAmount,
     isShowdown |-> jsonData.isShowdown,
     lastDistribution |-> jsonData.lastDistribution]

\* ------------------------------------------------------------- the state
VARIABLES
    pot,            \* a Pot object on its own
    call,           \* the last call made: [op, amount, returns, value]
    potManager,     \* a PotManager
    pc,             \* "idle", or the loop a call is stuck in
    posted,         \* history: what each player has handed to addBet since the ledger was empty
    showdownArgs,   \* history: <<>> or <<[winners, handValue]>> of the first distributeAllPots
    showdownCalls,  \* history: distributeAllPots calls since the last reset
    folded,         \* history: the players who have left the hand
    game,           \* a PokerGameManager's own fields
    players,        \* its PlayerManager: the PokerPlayer records by userId
    deck            \* a PokerDeck: [cards, usedCards, burnedCards, faceUp]

potVars == <<pot>>

ledgerVars == <<potManager, pc, posted, showdownArgs, showdownCalls, folded>>

gameVars == <<game, players>>

vars == <<pot, call, potManager, pc, posted, showdownArgs, showdownCalls, folded, game, players,
         deck>>

\* The deck of a specification that has none.
NoDeck == [cards |-> <<>>, usedCards |-> <<>>, burnedCards |-> <<>>, faceUp |-> {}]

\* The table of a specification that has none.
NoGame == [state |-> "none"]

NoPlayers == [p \in {} |-> 0]

NoCall == [op |-> "none", amount |-> 0, returns |-> TRUE, value |-> <<>>]

\* What the ledger variables hold in a specification without a ledger.
NoLedger ==
    /\ potManager = NewPotManager
    /\ pc = "idle"
    /\ posted = [p \in Players |-> 0]
    /\ showdownArgs = <<>>
    /\ showdownCalls = 0
    /\ folded = {}

NoTable ==
    /\ game = NoGame
    /\ players = NoPlayers

\* ---------------------------------------------------- SpecPot: one Pot
PotInit ==
    /\ pot = NewPot(0)
    /\ deck = NoDeck
    /\ call = NoCall
    /\ NoLedger
    /\ NoTable

\* pot.addPlayerContribution(p, amount, round)
PotAddPlayerContribution(p, amount) ==
    /\ pot.amount + amount <= MaxPotTotal
    /\ pot' = AddPlayerContribution(pot, p, amount)
    /\ call' = [op |-> "addPlayerContribution", amount |-> amount, returns |-> TRUE,
                value |-> <<>>]
    /\ UNCHANGED <<deck, ledgerVars, gameVars>>

\* pot.removeEligiblePlayer(p)
PotRemoveEligiblePlayer(p) ==
    /\ pot' = RemoveEligiblePlayer(pot, p)
    /\ call' = [op |-> "removeEligiblePlayer", amount |-> 0, returns |-> TRUE, value |-> <<>>]
    /\ UNCHANGED <<deck, ledgerVars, gameVars>>

\* pot.distributeToWinners(winnerPlayers, handEvaluations)
PotDistributeToWinners(winnerPlayers) ==
    /\ LET r == DistributeToWinners(pot, winnerPlayers)
       IN /\ pot' = r.pot
          /\ call' = [op |-> "distributeToWinners", amount |-> pot.amount, returns |-> TRUE,
                      value |-> r.ret]
    /\ UNCHANGED <<deck, ledgerVars, gameVars>>

\* pot.reset()
PotReset ==
    /\ pot' = ResetPot(pot)
    /\ call' = [op |-> "reset", amount |-> 0, returns |-> TRUE, value |-> <<>>]
    /\ UNCHANGED <<deck, ledgerVars, gameVars>>

PotNext ==
    \/ \E p \in Players, amount \in 0..MaxAmount : PotAddPlayerContribution(p, amount)
    \/ \E p \in Players : PotRemoveEligiblePlayer(p)
    \/ \E w \in DistinctSeqs(Players, 2) : PotDistributeToWinners(w)
    \/ PotReset

SpecPot == PotInit /\ [][PotNext]_vars

\* --------------------------------------- SpecSplit: the two split functions
\* Pot amounts handed to the split functions.
SplitAmounts == (0..MaxSplit) \cup {100}

\* handStrengths objects: any subset of the players as keys.
StrengthMaps == UNION {[S -> 0..MaxStrength] : S \in SUBSET Players}

\* The arguments of one call, drawn before the call is made.
SplitInit ==
    /\ pot = NewPot(0)
    /\ deck = NoDeck
    /\ \E a \in SplitAmounts, w \in DistinctSeqs(Players, 3), h \in StrengthMaps :
          /\ Len(w) >= 1
          /\ call = [op |-> "arguments", amount |-> a, returns |-> TRUE,
                     value |-> [winners |-> w, handStrengths |-> h]]
    /\ NoLedger
    /\ NoTable

\* pot.calculateDistribution(winnerPlayers, handEvaluations) on a Pot holding
\* call.amount (handEvaluations only fills a display field)
SplitCalculateDistribution ==
    /\ call.op = "arguments"
    /\ call' = [op |-> "calculateDistribution", amount |-> call.amount, returns |-> TRUE,
                value |-> [winners |-> call.value.winners,
                           distribution |->
                               CalculateDistribution(call.amount, call.value.winners)]]
    /\ UNCHANGED <<pot, deck, ledgerVars, gameVars>>

\* distributePot(potAmount, winners, handStrengths)
SplitDistributePot ==
    /\ call.op = "arguments"
    /\ call' = [op |-> "distributePot", amount |-> call.amount, returns |-> TRUE,
                value |-> [winners |-> call.value.winners,
                           distribution |->
                               DistributePot(call.amount, call.value.winners,
                                             call.value.handStrengths)]]
    /\ UNCHANGED <<pot, deck, ledgerVars, gameVars>>

SplitNext ==
    \/ SplitCalculateDistribution
    \/ SplitDistributePot

SpecSplit == SplitInit /\ [][SplitNext]_vars

\* ------------------------------------- SpecSidePots: calculateSidePots
\* Array.prototype.sort with (a, b) => currentBets[a] - currentBets[b]: by
\* bet, smaller first, players of equal bet in their given order.
RECURSIVE InsertByBet(_, _, _)
InsertByBet(sorted, p, currentBets) ==
    IF sorted = <<>> THEN <<p>>
    ELSE IF currentBets[Head(sorted)] <= currentBets[p]
         THEN <<Head(sorted)>> \o InsertByBet(Tail(sorted), p, currentBets)
         ELSE <<p>> \o sorted

RECURSIVE SortByBet(_, _)
SortByBet(ps, currentBets) ==
    IF ps = <<>> THEN <<>>
    ELSE InsertByBet(SortByBet(SubSeq(ps, 1, Len(ps) - 1), currentBets),
                     ps[Len(ps)], currentBets)

\* The for loop of calculateSidePots from index i (from 1) on.
RECURSIVE SidePotsFrom(_, _, _, _)
SidePotsFrom(sortedPlayers, currentBets, i, previousLevel) ==
    IF i > Len(sortedPlayers) THEN <<>>
    ELSE LET playerBet == currentBets[sortedPlayers[i]]
             levelAmount == playerBet - previousLevel
             contributing == Len(sortedPlayers) - (i - 1)
         IN IF playerBet > previousLevel
            THEN <<[level |-> i, amount |-> levelAmount * contributing,
                    levelAmount |-> levelAmount,
                    eligiblePlayers |-> SubSeq(sortedPlayers, i, Len(sortedPlayers)),
                    contributingPlayers |-> contributing]>>
                 \o SidePotsFrom(sortedPlayers, currentBets, i + 1, playerBet)
            ELSE SidePotsFrom(sortedPlayers, currentBets, i + 1, previousLevel)

\* Mutant of calculateSidePots: the players are not sorted by their bets.
CalculateSidePotsUnsorted(ps, currentBets) ==
    SidePotsFrom(SelectSeq(ps, LAMBDA p : currentBets[p] > 0), currentBets, 1, 0)

\* calculateSidePots(players, currentBets), players by their userId
CalculateSidePots(ps, currentBets) ==
    SidePotsFrom(SortByBet(SelectSeq(ps, LAMBDA p : currentBets[p] > 0), currentBets),
                 currentBets, 1, 0)

\* Bets handed to calculateSidePots; a player without a bet has 0.
SideBets == {0, 1, 2, 100, 300}

\* The arguments of one call, drawn before the call is made.
SidePotsInit ==
    /\ pot = NewPot(0)
    /\ deck = NoDeck
    /\ \E ps \in DistinctSeqs(Players, 3), currentBets \in [Players -> SideBets] :
          call = [op |-> "arguments", amount |-> 0, returns |-> TRUE,
                  value |-> [players |-> ps, currentBets |-> currentBets]]
    /\ NoLedger
    /\ NoTable

\* calculateSidePots(players, currentBets)
CallCalculateSidePots ==
    /\ call.op = "arguments"
    /\ call' = [op |-> "calculateSidePots", amount |-> 0, returns |-> TRUE,
                value |-> [players |-> call.value.players,
                           currentBets |-> call.value.currentBets,
                           sidePots |-> CalculateSidePots(call.value.players,
                                                          call.value.currentBets)]]
    /\ UNCHANGED <<pot, deck, ledgerVars, gameVars>>

SidePotsNext == CallCalculateSidePots

SpecSidePots == SidePotsInit /\ [][SidePotsNext]_vars

\* ------------------------------------------------- inputs of the ledger
\* Chip amounts posted in one call, ceilings handed to addBet.
BetAmounts == {0, 100, 200, 300}

Ceilings == {0, 100, Infinity}

\* What each player had put into a hand when a snapshot was taken.
Stakes == {0, 100, 300}

\* The elements of S in increasing order.
RECURSIVE SortedLevels(_)
SortedLevels(S) ==
    IF S = {} THEN <<>>
    ELSE LET m == CHOOSE x \in S : \A y \in S : x <= y
         IN <<m>> \o SortedLevels(S \ {m})

\* The ledger of the data model for the stakes `total` with the players of
\* `out` out of the hand, as PotManager.toJSON writes it: pot k holds, from
\* every player whose stake reaches above level k-1, the part of the stake
\* between level k-1 and level k; a player who folded keeps the contribution
\* and loses eligibility.
LayeredSnapshot(total, out) ==
    LET levels == SortedLevels({total[p] : p \in Players} \ {0})
        lo(k) == IF k = 1 THEN 0 ELSE levels[k - 1]
        in(k) == {p \in Players : total[p] > lo(k)}
        layer(k) ==
            [level |-> k - 1,
             amount |-> (levels[k] - lo(k)) * Cardinality(in(k)),
             contributions |->
                 [p \in in(k) |-> [amount |-> levels[k] - lo(k), isEligible |-> p \notin out,
                                   hasWon |-> FALSE, wonAmount |-> 0]],
             eligiblePlayers |-> in(k) \ out, winners |-> <<>>,
             isDistributed |-> FALSE, isLocked |-> FALSE]
    IN [mainPot |-> IF levels = <<>> THEN PotToJSON(NewPot(0)) ELSE layer(1),
        sidePots |-> [i \in 1..(Len(levels) - 1) |-> layer(i + 1)],
        totalAmount |-> SumOver(total, Players),
        isShowdown |-> FALSE, lastDistribution |-> <<>>]

\* Hand values the evaluator gives the players at showdown.
HandValues == [Players -> 1..2]

\* PokerGameManager.determineWinners on numeric hand values: the players of
\* `shown` sorted by value, larger first (stable, in the order of the
\* evaluations object's keys), cut to those with the best value.
DetermineWinners(handValue, shown) ==
    LET keys == SortedLevels({CHOOSE i \in 1..3 : <<"A", "B", "C">>[i] = q : q \in shown})
        order == [i \in DOMAIN keys |-> <<"A", "B", "C">>[keys[i]]]
        sortedPlayers == SortByStrength(order, handValue)
    IN IF shown = {} THEN <<>>
       ELSE Filter(sortedPlayers,
                   {q \in shown : handValue[q] = handValue[sortedPlayers[1]]})

\* ------------------------------------------------- SpecLedger: the actions
LedgerInit ==
    /\ pot = NewPot(0)
    /\ deck = NoDeck
    /\ call = NoCall
    /\ \E total \in [Players -> Stakes], out \in SUBSET Players :
          /\ \A p \in out : total[p] > 0
          /\ potManager = PotManagerFromJSON(LayeredSnapshot(total, out))
          /\ posted = total
          /\ folded = out
    /\ pc = "idle"
    /\ showdownArgs = <<>>
    /\ showdownCalls = 0
    /\ game = NoGame
    /\ players = NoPlayers

\* potManager.addBet(p, amount, playerAllInAmount)
LedgerAddBet(p, amount, playerAllInAmount) ==
    /\ pc = "idle"
    /\ posted[p] + amount <= MaxStake
    /\ LET r == AddBet(potManager, p, amount, playerAllInAmount)
       IN /\ potManager' = r.pm
          /\ pc' = IF r.returns THEN "idle" ELSE "addBet_while"
          /\ call' = [op |-> "addBet", amount |-> amount, returns |-> r.returns,
                      value |-> [added |-> r.added, pots |-> r.pots,
                                 totalAmount |-> r.pm.totalAmount,
                                 totalBefore |-> potManager.totalAmount]]
    /\ posted' = [posted EXCEPT ![p] = @ + amount]
    /\ UNCHANGED <<pot, deck, showdownArgs, showdownCalls, folded, gameVars>>

\* The loop of a call that never returns: each pass builds a side pot, finds
\* no space in it and drops it.
AddBetSpin ==
    /\ pc = "addBet_while"
    /\ UNCHANGED vars

\* potManager.playerFolds(p)
LedgerPlayerFolds(p) ==
    /\ pc = "idle"
    /\ potManager' = PlayerFolds(potManager, p)
    /\ call' = [op |-> "playerFolds", amount |-> 0, returns |-> TRUE, value |-> <<p>>]
    /\ folded' = folded \cup {p}
    /\ UNCHANGED <<pot, deck, pc, posted, showdownArgs, showdownCalls, gameVars>>

\* potManager.playerAllIn(p, allInAmount)
LedgerPlayerAllIn(p, allInAmount) ==
    /\ pc = "idle"
    /\ potManager' = PlayerAllIn(potManager, p, allInAmount)
    /\ call' = [op |-> "playerAllIn", amount |-> allInAmount, returns |-> TRUE, value |-> <<>>]
    /\ UNCHANGED <<pot, deck, pc, posted, showdownArgs, showdownCalls, folded, gameVars>>

\* potManager.distributeAllPots(winners, handEvaluations)
LedgerDistributeAllPots(winners, handValue) ==
    /\ pc = "idle"
    /\ showdownCalls < MaxShowdownCalls
    /\ LET r == DistributeAllPots(potManager, winners)
       IN /\ potManager' = r.pm
          /\ call' = [op |-> "distributeAllPots", amount |-> 0, returns |-> TRUE,
                      value |-> r.ret]
    /\ showdownArgs' = IF showdownArgs = <<>>
                       THEN <<[winners |-> winners, handValue |-> handValue]>>
                       ELSE showdownArgs
    /\ showdownCalls' = showdownCalls + 1
    /\ UNCHANGED <<pot, deck, pc, posted, folded, gameVars>>

\* potManager.resetForNewHand()
LedgerResetForNewHand ==
    /\ pc = "idle"
    /\ potManager' = ResetForNewHand(potManager)
    /\ call' = [op |-> "resetForNewHand", amount |-> 0, returns |-> TRUE, value |-> <<>>]
    /\ posted' = [p \in Players |-> 0]
    /\ showdownArgs' = <<>>
    /\ showdownCalls' = 0
    /\ folded' = {}
    /\ UNCHANGED <<pot, deck, pc, gameVars>>

\* The players still eligible for some pot: those the table shows down.
StillIn(pm) == UNION {GetAllPots(pm)[i].eligiblePlayers : i \in DOMAIN GetAllPots(pm)}

\* The caller is a table: it posts bets and folds for the players still in
\* the hand (PokerPlayer.canAct turns a folded player away) while the hand is
\* being played, and after the showdown only distributes again or resets.
LedgerNext ==
    \/ /\ ~potManager.isShowdown
       /\ \E p \in Players \ folded, amount \in BetAmounts, c \in Ceilings : LedgerAddBet(p, amount, c)
    \/ AddBetSpin
    \/ /\ ~potManager.isShowdown
       /\ \E p \in Players \ folded : LedgerPlayerFolds(p)
    \/ /\ ~potManager.isShowdown
       /\ \E p \in Players, a \in {100} : LedgerPlayerAllIn(p, a)
    \/ \E h \in HandValues :
          \E w \in {DetermineWinners(h, StillIn(potManager)),
                    SortByStrength(DetermineWinners([q \in Players |-> 1], StillIn(potManager)), h)} :
             LedgerDistributeAllPots(w, h)
    \/ LedgerResetForNewHand

SpecLedger == LedgerInit /\ [][LedgerNext]_vars

\* ------------------------------------------------------------ PokerPlayer
\* Table configuration (PokerGameManager constructor defaults).
StartingStack == 1500

SmallBlind == 10

BigBlind == 20

MinPlayers == 2

\* `undefined`, `null` as player ids
Undefined == "undefined"

Null == "null"

\* new PokerPlayer(userId, nickname, chips, position): the fields the table
\* reads. hasCards stands for cards.length === 2; lastAction is "none" for null.
NewPlayer(userId, chips, position) ==
    [userId |-> userId, chips |-> chips, bet |-> 0, position |-> position,
     isActive |-> TRUE, isInHand |-> TRUE, isFolded |-> FALSE, isAllIn |-> FALSE,
     hasActedThisRound |-> FALSE, sittingOut |-> FALSE, isEliminated |-> FALSE,
     connected |-> TRUE, lastAction |-> "none", hasCards |-> FALSE]

\* PokerPlayer.resetForNewHand
ResetPlayerForNewHand(pl) ==
    LET r == [pl EXCEPT !.hasCards = FALSE, !.bet = 0, !.lastAction = "none",
                        !.isFolded = FALSE, !.isAllIn = FALSE,
                        !.hasActedThisRound = FALSE, !.isInHand = TRUE]
    IN IF r.chips <= 0
       THEN [r EXCEPT !.isEliminated = TRUE, !.isActive = FALSE, !.isInHand = FALSE]
       ELSE r

\* PokerPlayer.addToBet: [player |-> the player afterwards, amount |-> returned]
AddToBet(pl, amount) ==
    IF amount <= 0 THEN [player |-> pl, amount |-> 0]
    ELSE LET actualAmount == Min(amount, pl.chips)
         IN IF actualAmount <= 0 THEN [player |-> pl, amount |-> 0]
            ELSE [player |-> [pl EXCEPT !.chips = @ - actualAmount,
                                        !.bet = @ + actualAmount,
                                        !.isAllIn = (pl.isAllIn \/ pl.chips - actualAmount = 0)],
                  amount |-> actualAmount]

\* PokerPlayer.canAct(gameState)
CanAct(pl, gameState) ==
    /\ pl.isActive
    /\ ~pl.isEliminated
    /\ pl.isInHand
    /\ ~pl.isFolded
    /\ ~pl.isAllIn
    /\ ~pl.sittingOut
    /\ pl.connected
    /\ pl.chips > 0
    /\ gameState.currentPlayerTurn = pl.userId

\* PokerPlayer.canCheck
CanCheck(pl, currentMaxBet) == pl.bet >= currentMaxBet

\* PokerPlayer.getCallAmount
GetCallAmount(pl, currentMaxBet) == Max(0, currentMaxBet - pl.bet)

\* PokerPlayer.getMinRaise
GetMinRaise(pl, currentMaxBet) ==
    IF currentMaxBet = 0 THEN 0
    ELSE Max(currentMaxBet + (currentMaxBet - pl.bet), currentMaxBet * 2)

\* PokerPlayer.fold
Fold(pl) == [pl EXCEPT !.isFolded = TRUE, !.isInHand = FALSE, !.bet = 0]

\* PokerPlayer.check: [player, amount, threw]
Check(pl, currentMaxBet) ==
    [player |-> pl, amount |-> 0, threw |-> ~CanCheck(pl, currentMaxBet)]

\* Mutant of PokerPlayer.takeAction: the action is recorded on the player
\* before canAct is asked, which then refuses.
TakeActionMarksFirst(pl, action, amount, gameState) ==
    [player |-> [pl EXCEPT !.lastAction = action, !.hasActedThisRound = TRUE],
     amount |-> 0, threw |-> TRUE]

\* PokerPlayer.takeAction(action, amount, gameState): [player |-> the player
\* afterwards, amount |-> actionResult.amount, threw |-> whether it throws].
\* The constructor's field `bet` (a number) hides the method bet(), so the
\* 'bet' case calls a number and throws a TypeError.
TakeAction(pl, action, amount, gameState) ==
    IF ~CanAct(pl, gameState) THEN [player |-> pl, amount |-> 0, threw |-> TRUE]
    ELSE LET p1 == [pl EXCEPT !.lastAction = action, !.hasActedThisRound = TRUE]
             paid(r) == [player |-> r.player, amount |-> r.amount, threw |-> FALSE]
         IN CASE action = "fold" -> [player |-> Fold(p1), amount |-> 0, threw |-> FALSE]
              [] action = "check" -> Check(p1, gameState.currentMaxBet)
              [] action = "call" ->
                   IF GetCallAmount(p1, gameState.currentMaxBet) <= 0
                   THEN Check(p1, gameState.currentMaxBet)
                   ELSE paid(AddToBet(p1, GetCallAmount(p1, gameState.currentMaxBet)))
              [] action = "bet" -> [player |-> p1, amount |-> 0, threw |-> TRUE]
              [] action = "raise" ->
                   IF amount < GetMinRaise(p1, gameState.currentMaxBet)
                      /\ p1.chips >= GetMinRaise(p1, gameState.currentMaxBet)
                   THEN [player |-> p1, amount |-> 0, threw |-> TRUE]
                   ELSE paid(AddToBet(p1, amount))
              [] action = "allin" ->
                   LET r == AddToBet(p1, p1.chips)
                   IN [player |-> [r.player EXCEPT !.isAllIn = TRUE], amount |-> r.amount,
                       threw |-> FALSE]
              [] OTHER -> [player |-> p1, amount |-> 0, threw |-> TRUE]

\* ---------------------------------------------------------- PlayerManager
\* PlayerManager.players is the array: a sequence of player records.
HasPlayer(ps, userId) == \E i \in DOMAIN ps : ps[i].userId = userId

\* PlayerManager.getPlayerById, for a player at the table
GetPlayerById(ps, userId) == ps[CHOOSE i \in DOMAIN ps : ps[i].userId = userId]

\* The array with the (shared) player object pl in its new state.
SetPlayer(ps, pl) == [i \in DOMAIN ps |-> IF ps[i].userId = pl.userId THEN pl ELSE ps[i]]

\* PlayerManager.getActivePlayers
GetActivePlayers(ps) ==
    SelectSeq(ps, LAMBDA pl : pl.isActive /\ ~pl.sittingOut /\ pl.chips > 0)

\* PlayerManager.getPlayersInHand
GetPlayersInHand(ps) == SelectSeq(ps, LAMBDA pl : pl.isInHand /\ ~pl.isFolded)

\* PlayerManager.getPlayersEligibleForCards (PokerPlayer.canReceiveCards)
GetPlayersEligibleForCards(ps) ==
    SelectSeq(ps, LAMBDA pl : pl.isActive /\ pl.isInHand /\ pl.chips > 0)

\* PlayerManager.findAvailableSeat: the lowest free seat
FindAvailableSeat(ps) ==
    CHOOSE s \in 0..Len(ps) :
        /\ \A i \in DOMAIN ps : ps[i].position # s
        /\ \A t \in 0..(s - 1) : \E i \in DOMAIN ps : ps[i].position = t

\* The chips on the table in the players' stacks.
ChipsOf(ps) == SumSeq([i \in DOMAIN ps |-> ps[i].chips])

\* ------------------------------------------------------ PokerGameManager
\* The table after `new PokerGameManager(config)` and initialize(), with the
\* default configuration as a cash table (no tournament object).
\* currentPlayerTurn is a user id or Null; handStartTotal is history: the
\* chips in the stacks when the hand in progress started, -1 before any hand.
\* actionTimer says whether an interval is armed (the field holds its handle).
\* pausedFrom is history: the state a paused table was paused in.
NewGame ==
    [state |-> "lobby", currentRound |-> "preflop", handNumber |-> 0,
     dealerPosition |-> 0, smallBlindPosition |-> 0, bigBlindPosition |-> 0,
     currentPlayerTurn |-> Null, currentMaxBet |-> 0, lastRaiseAmount |-> 0,
     isPaused |-> FALSE, hasEvaluator |-> TRUE, hasDeck |-> TRUE, handStartTotal |-> -1,
     actionTimer |-> FALSE, actionTimeRemaining |-> ActionTime,
        pausedFrom |-> "none"]

\* String.prototype.toUpperCase on a round name
ToUpperCase(round) ==
    CASE round = "preflop" -> "PREFLOP"
      [] round = "flop" -> "FLOP"
      [] round = "turn" -> "TURN"
      [] round = "river" -> "RIVER"

\* The running state of a handler is a table
\* [game, players, pm, threw, hung]: threw when an exception left the
\* handler, hung when a call inside it never returns.
Table(g, ps, pm) == [game |-> g, players |-> ps, pm |-> pm, threw |-> FALSE, hung |-> FALSE]

\* PokerGameManager.canPlayerAct
CanPlayerAct(ps, userId) ==
    /\ HasPlayer(ps, userId)
    /\ LET pl == GetPlayerById(ps, userId)
       IN pl.isInHand /\ ~pl.isFolded /\ ~pl.isAllIn /\ ~pl.hasActedThisRound

\* The first index (from 0) of arr at or after `start`, going round, whose
\* player can act; -1 when there is none. `count` entries are tried.
RECURSIVE FindWhoCanAct(_, _, _, _)
FindWhoCanAct(ps, arr, start, count) ==
    IF count = 0 THEN -1
    ELSE IF CanPlayerAct(ps, arr[(start % Len(arr)) + 1].userId) THEN start % Len(arr)
    ELSE FindWhoCanAct(ps, arr, start + 1, count - 1)

\* PokerGameManager.stopActionTimer: the game afterwards
StopActionTimer(g) == [g EXCEPT !.actionTimer = FALSE]

\* PokerGameManager.startActionTimer: the game afterwards
StartActionTimer(g) ==
    IF g.currentPlayerTurn = Null THEN StopActionTimer(g)
    ELSE [g EXCEPT !.actionTimer = TRUE, !.actionTimeRemaining = ActionTime]

\* `if (this.currentPlayerTurn) this.startActionTimer()`
StartTimerOfTurn(g) == IF g.currentPlayerTurn # Null THEN StartActionTimer(g) ELSE g

\* PokerGameManager.determineFirstToAct: the game afterwards
DetermineFirstToAct(g, ps) ==
    LET playersInHand == GetPlayersInHand(ps)
        n == Len(playersInHand)
        startPosition == IF g.currentRound = "preflop"
                         THEN (g.bigBlindPosition + 1) % n
                         ELSE (g.dealerPosition + 1) % n
        found == FindWhoCanAct(ps, playersInHand, startPosition, n)
    IN IF n = 0 THEN g
       ELSE IF found >= 0
       THEN [g EXCEPT !.currentPlayerTurn = playersInHand[found + 1].userId]
       ELSE [g EXCEPT !.currentPlayerTurn = Null]

\* Mutant of PokerGameManager.isRoundComplete: the bets are not compared.
IsRoundCompleteActedOnly(g, ps) ==
    LET playersInHand == GetPlayersInHand(ps)
    IN IF Len(playersInHand) <= 1 THEN TRUE
       ELSE \A i \in DOMAIN playersInHand :
               \/ playersInHand[i].hasActedThisRound
               \/ playersInHand[i].isAllIn
               \/ playersInHand[i].isFolded

\* PokerGameManager.isRoundComplete
IsRoundComplete(g, ps) ==
    LET playersInHand == GetPlayersInHand(ps)
        allActed == \A i \in DOMAIN playersInHand :
                       \/ playersInHand[i].hasActedThisRound
                       \/ playersInHand[i].isAllIn
                       \/ playersInHand[i].isFolded
    IN IF Len(playersInHand) <= 1 THEN TRUE
       ELSE IF ~allActed THEN FALSE
       ELSE \A i \in DOMAIN playersInHand :
               \/ playersInHand[i].isAllIn
               \/ playersInHand[i].isFolded
               \/ playersInHand[i].bet = g.currentMaxBet

\* PokerGameManager.resetForNewRound
ResetForNewRound(T) ==
    [T EXCEPT
       !.players = [i \in DOMAIN T.players |->
                       IF T.players[i].isInHand /\ ~T.players[i].isFolded
                       THEN [T.players[i] EXCEPT !.hasActedThisRound = FALSE, !.bet = 0,
                                                 !.lastAction = "none"]
                       ELSE T.players[i]],
       !.game.currentMaxBet = 0,
       !.game.lastRaiseAmount = 0]

\* PokerGameManager.distributePot(winners, handEvaluations): the ledger pays,
\* then `distribution.forEach` is called on the object distributeAllPots
\* returns (or on null), which throws before any stack is credited.
ManagerDistributePot(T, winners) ==
    IF Len(winners) = 0 THEN T
    ELSE [T EXCEPT !.game.state = "distributing",
                   !.pm = DistributeAllPots(T.pm, winners).pm,
                   !.threw = TRUE]

\* PokerGameManager.goToShowdown with evaluateAllHands and determineWinners;
\* handValue is what the evaluator makes of the cards. A table without a
\* deck throws in getCommunityCards (this.deck.usedCards), one without a
\* hand evaluator at the first hand it has to evaluate.
GoToShowdown(T, handValue) ==
    LET T1 == [T EXCEPT !.game.state = "showdown"]
        playersInShowdown == GetPlayersInHand(T.players)
        withCards == SelectSeq(playersInShowdown, LAMBDA pl : pl.hasCards)
        shown == {withCards[i].userId : i \in DOMAIN withCards}
    IN IF Len(playersInShowdown) = 1
       THEN ManagerDistributePot(T1, <<playersInShowdown[1].userId>>)
       ELSE IF ~T.game.hasDeck \/ (withCards # <<>> /\ ~T.game.hasEvaluator)
       THEN [T1 EXCEPT !.threw = TRUE]
       ELSE ManagerDistributePot(T1, DetermineWinners(handValue, shown))

\* Mutant of PokerGameManager.checkRoundCompletion: the isRoundComplete guard
\* is lost.
CheckRoundCompletionUnguarded(T, handValue) ==
    IF T.game.currentRound = "river" THEN GoToShowdown(T, handValue)
    ELSE IF ~T.game.hasDeck THEN [T EXCEPT !.threw = TRUE]
    ELSE LET next == CASE T.game.currentRound = "preflop" -> "flop"
                       [] T.game.currentRound = "flop" -> "turn"
                       [] T.game.currentRound = "turn" -> "river"
             T1 == ResetForNewRound([T EXCEPT !.game.currentRound = next])
             g2 == DetermineFirstToAct(T1.game, T1.players)
         IN [T1 EXCEPT !.game = StartTimerOfTurn([g2 EXCEPT !.state = ToUpperCase(next)])]

\* PokerGameManager.checkRoundCompletion. dealCommunityCards starts with
\* this.deck.burnCard(), which throws on a table without a deck; a deck that
\* is there always has the cards a round needs (at most 3 players and 8 board cards
\* out of 52).
CheckRoundCompletion(T, handValue) ==
    IF ~IsRoundComplete(T.game, T.players) THEN T
    ELSE IF T.game.currentRound = "river" THEN GoToShowdown(T, handValue)
    ELSE IF ~T.game.hasDeck THEN [T EXCEPT !.threw = TRUE]
    ELSE LET next == CASE T.game.currentRound = "preflop" -> "flop"
                       [] T.game.currentRound = "flop" -> "turn"
                       [] T.game.currentRound = "turn" -> "river"
             T1 == ResetForNewRound([T EXCEPT !.game.currentRound = next])
             g2 == DetermineFirstToAct(T1.game, T1.players)
         IN [T1 EXCEPT !.game = StartTimerOfTurn([g2 EXCEPT !.state = ToUpperCase(next)])]

\* PokerGameManager.advanceTurn
AdvanceTurn(T, handValue) ==
    LET playersInHand == GetPlayersInHand(T.players)
        n == Len(playersInHand)
        at == {i \in DOMAIN playersInHand : playersInHand[i].userId = T.game.currentPlayerTurn}
        \* findIndex, from 0, -1 when absent; (-1 + i) % n is i - 1 for 1 <= i <= n
        currentIndex == IF at = {} THEN -1 ELSE (CHOOSE i \in at : TRUE) - 1
        found == FindWhoCanAct(T.players, playersInHand, currentIndex + 1 + n, n)
    IN IF n = 0 THEN [T EXCEPT !.game.currentPlayerTurn = Null]
       ELSE IF found >= 0
       THEN [T EXCEPT !.game = StartActionTimer(
                                   [@ EXCEPT !.currentPlayerTurn = playersInHand[found + 1].userId])]
       ELSE CheckRoundCompletion([T EXCEPT !.game.currentPlayerTurn = Null], handValue)

\* One blind of postBlinds (lines 471-483 / 486-498) for the player at index
\* pos of activePlayers: the chips leave the stack, then the ledger is told.
PostBlindOf(T, pl, amount, r) ==
    IF ~r.returns
    THEN [T EXCEPT !.players = SetPlayer(T.players, AddToBet(pl, amount).player),
                   !.pm = r.pm, !.hung = TRUE]
    ELSE [T EXCEPT
            !.players = SetPlayer(T.players,
                            [AddToBet(pl, amount).player EXCEPT
                                !.lastAction = "blind", !.hasActedThisRound = TRUE]),
            !.pm = r.pm,
            !.game.currentMaxBet = amount]

PostBlindBy(T, pl, blind) ==
    PostBlindOf(T, pl, Min(blind, pl.chips),
                AddBet(T.pm, pl.userId, Min(blind, pl.chips), Infinity))

PostBlind(T, activePlayers, pos, blind) ==
    IF T.hung \/ pos + 1 \notin DOMAIN activePlayers THEN T
    ELSE PostBlindBy(T, GetPlayerById(T.players, activePlayers[pos + 1].userId), blind)

\* PokerGameManager.postBlinds (the ante of the configuration is 0)
PostBlinds(T) ==
    PostBlind(PostBlind(T, GetActivePlayers(T.players), T.game.smallBlindPosition, SmallBlind),
              GetActivePlayers(T.players), T.game.bigBlindPosition, BigBlind)

\* PokerGameManager.canStartNewHand
CanStartNewHand(g, ps) ==
    /\ g.state \in {"lobby", "between_hands"}
    /\ Len(GetPlayersEligibleForCards(ps)) >= MinPlayers

\* startNewHand, lines 377-380, on the table postBlinds leaves
StartNewHandEnd(T) ==
    IF T.hung THEN T
    ELSE [T EXCEPT !.game = StartActionTimer([DetermineFirstToAct(T.game, T.players)
                                               EXCEPT !.state = "preflop"])]

\* PokerGameManager.startNewHand, when canStartNewHand allows it:
\* resetForNewHand, assignPositions, dealCards, postBlinds,
\* determineFirstToAct.
StartNewHand(T) ==
    LET ps1 == [i \in DOMAIN T.players |-> ResetPlayerForNewHand(T.players[i])]
        n == Len(GetActivePlayers(ps1))
        dealer == (T.game.dealerPosition + 1) % n
        g1 == [T.game EXCEPT
                 !.state = "starting", !.handNumber = @ + 1, !.currentRound = "preflop",
                 !.currentMaxBet = 0, !.lastRaiseAmount = 0,
                 !.handStartTotal = ChipsOf(ps1)]
        g2 == IF n = 0 THEN g1
              ELSE [g1 EXCEPT !.dealerPosition = dealer,
                              !.smallBlindPosition = (dealer + 1) % n,
                              !.bigBlindPosition = (dealer + 2) % n]
        ps2 == [i \in DOMAIN ps1 |->
                   IF ps1[i].isActive /\ ps1[i].isInHand /\ ps1[i].chips > 0
                   THEN [ps1[i] EXCEPT !.hasCards = TRUE] ELSE ps1[i]]
    IN StartNewHandEnd(
           PostBlinds([T EXCEPT !.game = g2, !.players = ps2, !.pm = ResetForNewHand(T.pm)]))

\* PokerGameManager.calculateMinRaise
CalculateMinRaise(g) ==
    IF g.currentMaxBet = 0 THEN BigBlind
    ELSE IF g.lastRaiseAmount > 0 THEN g.currentMaxBet + g.lastRaiseAmount
    ELSE g.currentMaxBet * 2

\* PokerGameManager.validateAction: TRUE when it does not throw
ValidateAction(g, pl, action, amount) ==
    CASE action = "fold" -> TRUE
      [] action = "check" -> CanCheck(pl, g.currentMaxBet)
      [] action = "call" -> ~(GetCallAmount(pl, g.currentMaxBet) > pl.chips)
      [] action = "bet" ->
           ~(g.currentMaxBet > 0 \/ amount <= 0 \/ amount > pl.chips \/ amount < BigBlind)
      [] action = "raise" ->
           /\ g.currentMaxBet # 0
           /\ ~(amount < CalculateMinRaise(g) /\ pl.chips >= CalculateMinRaise(g))
           /\ ~(pl.bet + amount > pl.chips + pl.bet)
      [] action = "allin" -> pl.chips > 0
      [] OTHER -> FALSE

\* processPlayerAction, lines 683-688: the turn moves on or the round ends
ProcessActionEnd(T, handValue) ==
    IF ~IsRoundComplete(T.game, T.players) THEN AdvanceTurn(T, handValue)
    ELSE CheckRoundCompletion(T, handValue)

\* processPlayerAction, lines 643-670: the ledger is told of the chips res
\* moved (bet is addBet's result), currentMaxBet follows and the timer stops
ProcessActionBet(T, playerId, action, amount, res, bet, handValue) ==
    IF ~bet.returns
    THEN [T EXCEPT !.players = SetPlayer(T.players, res.player), !.pm = bet.pm, !.hung = TRUE]
    ELSE ProcessActionEnd(
             [T EXCEPT
                !.players = SetPlayer(T.players, res.player),
                !.pm = bet.pm,
                !.game = StopActionTimer(
                             IF res.amount > 0 /\ action \in {"bet", "raise", "allin"}
                             THEN [T.game EXCEPT
                                     !.currentMaxBet = Max(@, res.player.bet),
                                     !.lastRaiseAmount = IF action = "raise" THEN amount ELSE 0]
                             ELSE T.game)],
             handValue)

\* processPlayerAction, lines 636-641: res is takeAction's result
ProcessActionTaken(T, playerId, action, amount, res, handValue) ==
    IF res.threw THEN [T EXCEPT !.players = SetPlayer(T.players, res.player), !.threw = TRUE]
    ELSE ProcessActionBet(T, playerId, action, amount, res,
                          IF res.amount > 0
                          THEN AddBet(T.pm, playerId, res.amount, res.player.chips)
                          ELSE [pm |-> T.pm, returns |-> TRUE],
                          handValue)

\* Mutant of PokerGameManager.processPlayerAction: the turn is handed to the
\* caller instead of being compared with it.
ProcessPlayerActionTurnTaken(T, playerId, action, amount, handValue) ==
    IF \/ T.game.state \notin {"preflop", "flop", "turn", "river"}
       \/ ~HasPlayer(T.players, playerId)
    THEN [T EXCEPT !.threw = TRUE]
    ELSE IF ~ValidateAction(T.game, GetPlayerById(T.players, playerId), action, amount)
    THEN [T EXCEPT !.game.currentPlayerTurn = playerId, !.threw = TRUE]
    ELSE ProcessActionTaken([T EXCEPT !.game.currentPlayerTurn = playerId],
                            playerId, action, amount,
                            TakeAction(GetPlayerById(T.players, playerId), action, amount,
                                       [currentMaxBet |-> T.game.currentMaxBet,
                                        currentPlayerTurn |-> Undefined]),
                            handValue)

\* PokerGameManager.processPlayerAction. takeAction is handed
\* {currentMaxBet, currentRound}: the gameState has no currentPlayerTurn.
ProcessPlayerAction(T, playerId, action, amount, handValue) ==
    IF \/ T.game.state \notin {"preflop", "flop", "turn", "river"}
       \/ T.game.currentPlayerTurn # playerId
       \/ ~HasPlayer(T.players, playerId)
    THEN [T EXCEPT !.threw = TRUE]
    ELSE IF ~ValidateAction(T.game, GetPlayerById(T.players, playerId), action, amount)
    THEN [T EXCEPT !.threw = TRUE]
    ELSE ProcessActionTaken(T, playerId, action, amount,
                            TakeAction(GetPlayerById(T.players, playerId), action, amount,
                                       [currentMaxBet |-> T.game.currentMaxBet,
                                        currentPlayerTurn |-> Undefined]),
                            handValue)

\* forcePlayerFold, lines 311-317: res is takeAction's result
ForcePlayerFoldTaken(T, playerId, res, handValue) ==
    IF res.threw THEN [T EXCEPT !.threw = TRUE]
    ELSE IF T.game.currentPlayerTurn = playerId
    THEN AdvanceTurn([T EXCEPT !.players = SetPlayer(T.players, res.player),
                               !.pm = PlayerFolds(T.pm, playerId)], handValue)
    ELSE [T EXCEPT !.players = SetPlayer(T.players, res.player),
                   !.pm = PlayerFolds(T.pm, playerId)]

\* PokerGameManager.forcePlayerFold, for a player at the table and in the hand
ForcePlayerFold(T, playerId, handValue) ==
    ForcePlayerFoldTaken(T, playerId,
                         TakeAction(GetPlayerById(T.players, playerId), "fold", 0,
                                    [currentMaxBet |-> T.game.currentMaxBet,
                                     currentPlayerTurn |-> Undefined]),
                         handValue)

\* ---------------------------------------------------- SpecGame: the inputs
Rounds == {"preflop", "flop", "turn", "river"}

\* Where a player stands in a betting round in progress.
Standings == {"waiting", "checked", "bet", "called", "folded", "allin"}

\* What a player in each standing has in front of them this round: the bet
\* is BigBlind, a call matches it, an all-in was for SmallBlind; a raise was
\* made with SmallBlind in front, by twice BigBlind (calculateMinRaise).
RoundBet(standing) ==
    CASE standing \in {"bet", "called"} -> BigBlind
      [] standing = "allin" -> SmallBlind
      [] standing = "raised" -> SmallBlind + 2 * BigBlind
      [] OTHER -> 0

\* The player record PokerPlayer's methods leave in each standing.
PlayerIn(userId, position, standing) ==
    [NewPlayer(userId, IF standing = "allin" THEN 0 ELSE StartingStack - RoundBet(standing),
               position) EXCEPT
        !.bet = RoundBet(standing),
        !.hasCards = TRUE,
        !.isFolded = (standing = "folded"),
        !.isInHand = (standing # "folded"),
        !.isAllIn = (standing = "allin"),
        !.hasActedThisRound = (standing # "waiting"),
        !.lastAction = CASE standing = "waiting" -> "none"
                         [] standing = "checked" -> "check"
                         [] standing = "bet" -> "bet"
                         [] standing = "called" -> "call"
                         [] standing = "folded" -> "fold"
                         [] standing = "allin" -> "allin"
                         [] standing = "raised" -> "raise"]

Seats == <<"A", "B", "C">>

\* A table PokerGameManager.fromJSON restores in the middle of a betting
\* round: the three players seated in order, the chips of the round in the
\* ledger, the turn with the first player yet to act. fromJSON restores no
\* hand evaluator, and no deck either: the PokerDeck that poker-manager.js
\* declares (and so the one its PokerGameManager names) has no fromJSON, so a
\* snapshot can be restored only if it carries no deck, and this.deck stays
\* null.
RestoredPlayers(standing) == [i \in 1..3 |-> PlayerIn(Seats[i], i - 1, standing[Seats[i]])]

RestoredGame(round, standing) ==
    LET ps == RestoredPlayers(standing)
        bets == [p \in Players |-> RoundBet(standing[p])]
        waiting == {i \in 1..3 : standing[Seats[i]] = "waiting"}
    IN [state |-> round, currentRound |-> round, handNumber |-> 1,
        dealerPosition |-> 0, smallBlindPosition |-> 1, bigBlindPosition |-> 2,
        currentPlayerTurn |-> IF waiting = {} THEN Null
                              ELSE Seats[CHOOSE i \in waiting : \A j \in waiting : i <= j],
        currentMaxBet |-> CHOOSE m \in {bets[p] : p \in Players} :
                              \A p \in Players : bets[p] <= m,
        lastRaiseAmount |-> IF \E p \in Players : standing[p] = "raised"
                            THEN 2 * BigBlind ELSE 0,
        isPaused |-> FALSE, hasEvaluator |-> FALSE, hasDeck |-> FALSE,
        handStartTotal |-> ChipsOf(ps) + SumOver(bets, Players),
        actionTimer |-> FALSE, actionTimeRemaining |-> ActionTime,
        pausedFrom |-> "none"]

\* A round in which somebody called has a bet to call, and holds one bet.
WellFormedRound(standing) ==
    /\ (\E p \in Players : standing[p] = "called") => (\E p \in Players : standing[p] = "bet")
    /\ Cardinality({p \in Players : standing[p] = "bet"}) <= 1

\* Chips a player sits down with.
BuyIns == {5, StartingStack}

Actions == {"fold", "check", "call", "bet", "raise", "allin"}

\* The hand values the evaluator can be asked for: they are read only at a
\* river showdown of a table that has an evaluator.
ShowdownHands ==
    IF game.hasEvaluator /\ game.currentRound = "river" THEN HandValues
    ELSE {[p \in Players |-> 1]}

\* ------------------------------------------------ SpecGame: the actions
GameInit ==
    /\ pot = NewPot(0)
    /\ deck = NoDeck
    /\ call = NoCall
    /\ pc = "idle"
    /\ posted = [p \in Players |-> 0]
    /\ showdownArgs = <<>>
    /\ showdownCalls = 0
    /\ folded = {}
    /\ \/ /\ game = NewGame
          /\ players = <<>>
          /\ potManager = NewPotManager
       \/ \E round \in Rounds, standing \in [Players -> Standings] :
             /\ WellFormedRound(standing)
             /\ game = RestoredGame(round, standing)
             /\ players = RestoredPlayers(standing)
             /\ potManager = PotManagerFromJSON(
                                 LayeredSnapshot([p \in Players |-> RoundBet(standing[p])], {}))

\* The table a handler leaves behind, and what the caller saw of the call.
\* The record of the call says what the handler was given (args) and what
\* it did to the round.
Called(T, op, args) ==
    /\ game' = T.game
    /\ players' = T.players
    /\ potManager' = T.pm
    /\ pc' = IF T.hung THEN "addBet_while" ELSE "idle"
    /\ call' = [op |-> op, amount |-> 0, returns |-> ~T.threw /\ ~T.hung,
                value |-> [from |-> game.currentRound, to |-> T.game.currentRound,
                           inHand |-> Len(GetPlayersInHand(players)), args |-> args]]
    /\ UNCHANGED <<pot, deck, posted, showdownArgs, showdownCalls, folded>>

Leave(T, op) == Called(T, op, <<>>)

\* game.addPlayer(userId, nickname, chips)
GameAddPlayer(userId, chips) ==
    /\ pc = "idle"
    /\ game.state \in {"lobby", "between_hands"}
    /\ ~HasPlayer(players, userId)
    /\ Leave(Table(game, Append(players, NewPlayer(userId, chips, FindAvailableSeat(players))),
                   potManager),
             "addPlayer")

\* game.startNewHand()
GameStartNewHand ==
    /\ pc = "idle"
    /\ CanStartNewHand(game, players)
    /\ Leave(StartNewHand(Table(game, players, potManager)), "startNewHand")

\* game.processPlayerAction(playerId, action, amount)
GameProcessPlayerAction(playerId, action, amount) ==
    /\ pc = "idle"
    /\ \E h \in ShowdownHands :
          Leave(ProcessPlayerAction(Table(game, players, potManager), playerId, action, amount, h),
                "processPlayerAction")

\* game.forcePlayerFold(playerId)
GameForcePlayerFold(playerId) ==
    /\ pc = "idle"
    /\ HasPlayer(players, playerId)
    /\ GetPlayerById(players, playerId).isInHand
    /\ \E h \in ShowdownHands :
          Leave(ForcePlayerFold(Table(game, players, potManager), playerId, h),
                "forcePlayerFold")

\* game.advanceTurn()
GameAdvanceTurn ==
    /\ pc = "idle"
    /\ \E h \in ShowdownHands :
          Leave(AdvanceTurn(Table(game, players, potManager), h),
                "advanceTurn")

\* game.checkRoundCompletion()
GameCheckRoundCompletion ==
    /\ pc = "idle"
    /\ \E h \in ShowdownHands :
          Leave(CheckRoundCompletion(Table(game, players, potManager), h),
                "checkRoundCompletion")

\* game.isRoundComplete()
GameIsRoundComplete ==
    /\ pc = "idle"
    /\ call' = [op |-> "isRoundComplete", amount |-> 0, returns |-> TRUE,
                value |-> IsRoundComplete(game, players)]
    /\ UNCHANGED <<pot, deck, ledgerVars, gameVars>>

\* game.pauseGame()
GamePauseGame ==
    /\ pc = "idle"
    /\ Leave(Table(IF game.isPaused THEN game
                   ELSE StopActionTimer([game EXCEPT !.isPaused = TRUE, !.state = "paused",
                                                     !.pausedFrom = game.state]),
                   players, potManager),
             "pauseGame")

\* game.resumeGame()
GameResumeGame ==
    /\ pc = "idle"
    /\ Leave(Table(IF ~game.isPaused THEN game
                   ELSE StartTimerOfTurn([game EXCEPT !.isPaused = FALSE,
                                                      !.state = ToUpperCase(game.currentRound),
                                                      !.pausedFrom = "none"]),
                   players, potManager),
             "resumeGame")

\* PokerGameManager.handleActionTimeout: the fold goes through
\* processPlayerAction, and what that throws is caught and logged.
HandleActionTimeout(T, handValue) ==
    IF T.game.currentPlayerTurn = Null THEN T
    ELSE [ProcessPlayerAction(T, T.game.currentPlayerTurn, "fold", 0, handValue)
            EXCEPT !.threw = FALSE]

\* The callback startActionTimer hands to setInterval, run once.
ActionTimerTick(T, handValue) ==
    IF T.game.actionTimeRemaining - 1 <= 0
    THEN HandleActionTimeout([T EXCEPT !.game.actionTimeRemaining = @ - 1], handValue)
    ELSE [T EXCEPT !.game.actionTimeRemaining = @ - 1]

\* A second goes by while an interval is armed.
GameActionTimerTick ==
    /\ pc = "idle"
    /\ game.actionTimer
    /\ game.actionTimeRemaining > -MaxOverrun
    /\ \E h \in ShowdownHands :
          Called(ActionTimerTick(Table(game, players, potManager), h),
                 "actionTimerTick", <<game.currentPlayerTurn>>)

GameNext ==
    \/ \E userId \in Players, chips \in BuyIns : GameAddPlayer(userId, chips)
    \/ GameStartNewHand
    \/ \E p \in Players, action \in Actions, amount \in {0, BigBlind} :
          GameProcessPlayerAction(p, action, amount)
    \/ \E p \in Players : GameForcePlayerFold(p)
    \/ GameAdvanceTurn
    \/ GameCheckRoundCompletion
    \/ GameIsRoundComplete
    \/ GamePauseGame
    \/ GameResumeGame
    \/ AddBetSpin

SpecGame == GameInit /\ [][GameNext]_vars

\* A table from its construction on: players sit down, hands are started,
\* and the players keep submitting actions (a call to processPlayerAction
\* that can be made is made in the end).
HandInit ==
    /\ GameInit
    /\ game = NewGame

PlayersAct ==
    \E p \in Players, action \in Actions, amount \in {0, BigBlind} :
        GameProcessPlayerAction(p, action, amount)

HandNext ==
    \/ \E userId \in Players, chips \in BuyIns : GameAddPlayer(userId, chips)
    \/ GameStartNewHand
    \/ PlayersAct
    \/ GameAdvanceTurn
    \/ GameCheckRoundCompletion
    \/ GamePauseGame
    \/ GameResumeGame
    \/ AddBetSpin

SpecHand == HandInit /\ [][HandNext]_vars /\ WF_vars(PlayersAct)

\* The table with its clock: a table restored in the middle of a round, the
\* handlers that arm and stop the timer, and the seconds that go by between
\* them.
TimerInit ==
    /\ GameInit
    /\ game.state \in Rounds

TimerNext ==
    \/ \E p \in Players, action \in {"fold", "call"} : GameProcessPlayerAction(p, action, 0)
    \/ GameAdvanceTurn
    \/ GameCheckRoundCompletion
    \/ GamePauseGame
    \/ GameResumeGame
    \/ GameActionTimerTick

SpecTimer == TimerInit /\ [][TimerNext]_vars

\* --------------------------------------------------------- HandEvaluator
\* A card is [value, suit]: value is RANKS[rank].value (2..14, the ace 14).
Card(value, suit) == [value |-> value, suit |-> suit]

Suits == {"hearts", "diamonds", "clubs", "spades"}

\* POKER_HANDS: the value of each category
RoyalFlush == 10

StraightFlush == 9

FourOfAKind == 8

FullHouse == 7

Flush == 6

Straight == 5

ThreeOfAKind == 4

TwoPair == 3

OnePair == 2

HighCard == 1

\* The weight of a category in calculateHandValue, and the base of a kicker.
CategoryWeight == 1000000

KickerBase == 14

\* Array.prototype.sort((a, b) => b.value - a.value): stable, larger first
RECURSIVE InsertByValue(_, _)
InsertByValue(sorted, c) ==
    IF sorted = <<>> THEN <<c>>
    ELSE IF Head(sorted).value >= c.value THEN <<Head(sorted)>> \o InsertByValue(Tail(sorted), c)
    ELSE <<c>> \o sorted

RECURSIVE SortByValue(_)
SortByValue(cards) ==
    IF cards = <<>> THEN <<>>
    ELSE InsertByValue(SortByValue(SubSeq(cards, 1, Len(cards) - 1)), cards[Len(cards)])

\* slice(0, n)
Slice(cards, n) == SubSeq(cards, 1, Min(n, Len(cards)))

ValuesOf(cards) == {cards[i].value : i \in DOMAIN cards}

\* groupByValue: groups[v], the cards of value v in array order
GroupByValue(cards, v) == SelectSeq(cards, LAMBDA c : c.value = v)

\* The cards of one suit in array order (the suits object of
\* checkStraightFlush and checkFlush).
OfSuit(cards, suit) == SelectSeq(cards, LAMBDA c : c.suit = suit)

\* isConsecutive on the values of cards
IsConsecutive(cards) ==
    \A i \in 1..(Len(cards) - 1) : cards[i].value - 1 = cards[i + 1].value

\* The first card of each value of a sorted array (checkStraight's uniqueCards)
UniqueCards(sorted) ==
    SelectSeq([i \in DOMAIN sorted |->
                  IF i > 1 /\ sorted[i - 1].value = sorted[i].value THEN Card(0, "none")
                  ELSE sorted[i]],
              LAMBDA c : c.value # 0)

\* uniqueCards.find(c => c.value === v), for a value that is there
FindValue(cards, v) == cards[CHOOSE i \in DOMAIN cards : cards[i].value = v]

Lowest(S) == CHOOSE v \in S : \A w \in S : v <= w

Highest(S) == CHOOSE v \in S : \A w \in S : w <= v

\* checkStraight on its uniqueCards: <<>> for null
CheckStraightUnique(uniqueCards, starts) ==
    IF starts # {} THEN SubSeq(uniqueCards, Lowest(starts), Lowest(starts) + 4)
    ELSE IF {14, 2, 3, 4, 5} \subseteq ValuesOf(uniqueCards)
    THEN <<FindValue(uniqueCards, 14), FindValue(uniqueCards, 5), FindValue(uniqueCards, 4),
           FindValue(uniqueCards, 3), FindValue(uniqueCards, 2)>>
    ELSE <<>>

CheckStraightIn(uniqueCards) ==
    CheckStraightUnique(uniqueCards,
                        {i \in 1..(Len(uniqueCards) - 4) :
                            IsConsecutive(SubSeq(uniqueCards, i, i + 4))})

\* checkStraight
CheckStraight(cards) == CheckStraightIn(UniqueCards(SortByValue(cards)))

\* checkStraightFlush: the straight of the first suit that has five cards
\* and a straight among them (`with` is the suits that have five cards)
CheckStraightFlushOf(cards, with) ==
    IF \A suit \in with : CheckStraight(OfSuit(cards, suit)) = <<>> THEN <<>>
    ELSE Slice(CheckStraight(OfSuit(cards, CHOOSE suit \in with :
                                               CheckStraight(OfSuit(cards, suit)) # <<>>)), 5)

CheckStraightFlush(cards) ==
    CheckStraightFlushOf(cards, {suit \in Suits : Len(OfSuit(cards, suit)) >= 5})

\* checkRoyalFlush
CheckRoyalFlushOf(straightFlush) ==
    IF {14, 10, 13} \subseteq ValuesOf(straightFlush) /\ Len(straightFlush) = 5
    THEN straightFlush
    ELSE <<>>

CheckRoyalFlush(cards) == CheckRoyalFlushOf(CheckStraightFlush(cards))

\* The values that have at least n cards (the keys of groups, which a
\* for-in loop visits in ascending order).
ValuesWith(cards, n) == {v \in ValuesOf(cards) : Len(GroupByValue(cards, v)) >= n}

\* cards.filter(c => c.value is not in `used`).sort(larger first)
Remaining(cards, used) == SortByValue(SelectSeq(cards, LAMBDA c : c.value \notin used))

\* checkFourOfAKind (`fours` is the values that have four cards)
CheckFourOfAKindOf(cards, fours) ==
    IF fours = {} THEN <<>>
    ELSE Slice(Slice(GroupByValue(cards, Lowest(fours)), 4)
               \o Slice(Remaining(cards, {Lowest(fours)}), 1), 5)

CheckFourOfAKind(cards) == CheckFourOfAKindOf(cards, ValuesWith(cards, 4))

\* checkFullHouse keeping the first three of a kind the loop meets
CheckFullHouseFirstThree(cards, threes, pairs) ==
    IF threes = {} THEN <<>>
    ELSE IF pairs \ {Lowest(threes)} = {} THEN <<>>
    ELSE Slice(GroupByValue(cards, Lowest(threes)), 3)
         \o Slice(GroupByValue(cards, Highest(pairs \ {Lowest(threes)})), 2)

\* checkFullHouse: the highest three of a kind and the highest other pair
\* (`threes` and `pairs` are the values that have three and two cards)
CheckFullHouseOf(cards, threes, pairs) ==
    IF threes = {} THEN <<>>
    ELSE IF pairs \ {Highest(threes)} = {} THEN <<>>
    ELSE Slice(GroupByValue(cards, Highest(threes)), 3)
         \o Slice(GroupByValue(cards, Highest(pairs \ {Highest(threes)})), 2)

CheckFullHouse(cards) == CheckFullHouseOf(cards, ValuesWith(cards, 3), ValuesWith(cards, 2))

\* checkFlush
CheckFlushOf(cards, with) ==
    IF with = {} THEN <<>>
    ELSE Slice(SortByValue(OfSuit(cards, CHOOSE suit \in with : TRUE)), 5)

CheckFlush(cards) == CheckFlushOf(cards, {suit \in Suits : Len(OfSuit(cards, suit)) >= 5})

\* checkThreeOfAKind: the first value met with three cards
CheckThreeOfAKindOf(cards, threes) ==
    IF threes = {} THEN <<>>
    ELSE Slice(GroupByValue(cards, Lowest(threes)), 3)
         \o Slice(Remaining(cards, {Lowest(threes)}), 2)

CheckThreeOfAKind(cards) == CheckThreeOfAKindOf(cards, ValuesWith(cards, 3))

\* checkTwoPair: the two highest pairs and the best card of another value
CheckTwoPairOf(cards, first, second) ==
    Slice(Slice(GroupByValue(cards, first), 2) \o Slice(GroupByValue(cards, second), 2)
          \o Slice(Remaining(cards, {first, second}), 1), 5)

CheckTwoPairIn(cards, pairs) ==
    IF Cardinality(pairs) < 2 THEN <<>>
    ELSE CheckTwoPairOf(cards, Highest(pairs), Highest(pairs \ {Highest(pairs)}))

CheckTwoPair(cards) == CheckTwoPairIn(cards, ValuesWith(cards, 2))

\* checkOnePair: the first value met with two cards
CheckOnePairOf(cards, pairs) ==
    IF pairs = {} THEN <<>>
    ELSE Slice(GroupByValue(cards, Lowest(pairs)), 2)
         \o Slice(Remaining(cards, {Lowest(pairs)}), 3)

CheckOnePair(cards) == CheckOnePairOf(cards, ValuesWith(cards, 2))

\* checkHighCard
CheckHighCard(cards) == Slice(SortByValue(cards), 5)

\* 14 to the power n
RECURSIVE KickerWeight(_)
KickerWeight(n) == IF n = 0 THEN 1 ELSE KickerBase * KickerWeight(n - 1)

\* The sum of calculateHandValue's loop over the sorted cards
KickerSum(sorted) == SumSeq([i \in DOMAIN sorted |-> sorted[i].value * KickerWeight(5 - i)])

\* calculateHandValue with a category worth a tenth of what it is
CalculateHandValueNarrow(cards, handRank) ==
    handRank * (CategoryWeight \div 10) + KickerSum(SortByValue(cards))

\* calculateHandValue: the cards are sorted by value, larger first
CalculateHandValue(cards, handRank) ==
    handRank * CategoryWeight + KickerSum(SortByValue(cards))

\* finalizeResult
FinalizeResult(cards, handRank) ==
    [cards |-> Slice(cards, 5), rank |-> handRank,
     value |-> CalculateHandValue(cards, handRank)]

\* One step of evaluate: the result of a check when it found its category,
\* the checks below it otherwise.
Found(cards, handRank, otherwise) ==
    IF cards # <<>> THEN FinalizeResult(cards, handRank) ELSE otherwise

\* evaluate from checkThreeOfAKind on: checkStraight has sorted allCards in
\* place, so these checks see the cards sorted by value.
EvaluateSorted(sorted) ==
    Found(CheckThreeOfAKind(sorted), ThreeOfAKind,
    Found(CheckTwoPair(sorted), TwoPair,
    Found(CheckOnePair(sorted), OnePair,
    FinalizeResult(CheckHighCard(sorted), HighCard))))

\* HandEvaluator.evaluate(hand, community) on allCards = [...hand,
\* ...community]. A cached result is the result of the first evaluation of
\* the same cards.
Evaluate(allCards) ==
    Found(CheckRoyalFlush(allCards), RoyalFlush,
    Found(CheckStraightFlush(allCards), StraightFlush,
    Found(CheckFourOfAKind(allCards), FourOfAKind,
    Found(CheckFullHouse(allCards), FullHouse,
    Found(CheckFlush(allCards), Flush,
    Found(CheckStraight(allCards), Straight,
    EvaluateSorted(SortByValue(allCards))))))))

\* The first index at which the sorted cards of two hands differ in value; 0
\* when there is none.
FirstDifference(cards1, cards2) ==
    LET at == {i \in 1..Min(Len(cards1), Len(cards2)) : cards1[i].value # cards2[i].value}
    IN IF at = {} THEN 0 ELSE Lowest(at)

\* compareHands from the card-by-card comparison on (`at` is the first
\* index at which the sorted cards differ)
CompareCards(cards1, cards2, at) ==
    IF at = 0 THEN 0
    ELSE IF cards1[at].value > cards2[at].value THEN 1 ELSE -1

\* HandEvaluator.compareHands(hand1, hand2)
CompareHands(hand1, hand2) ==
    IF hand1.rank # hand2.rank THEN (IF hand1.rank > hand2.rank THEN 1 ELSE -1)
    ELSE IF hand1.value # hand2.value THEN (IF hand1.value > hand2.value THEN 1 ELSE -1)
    ELSE CompareCards(SortByValue(hand1.cards), SortByValue(hand2.cards),
                      FirstDifference(SortByValue(hand1.cards), SortByValue(hand2.cards)))

\* ------------------------------------------- SpecHands: one HandEvaluator
\* The cards the hands are drawn from, in the order they are handed over:
\* enough for every category, for two three-of-a-kinds at once, for six and
\* seven cards of one suit and for straights that overlap.
DeckCards ==
    <<Card(2, "diamonds"), Card(7, "clubs"), Card(7, "diamonds"), Card(7, "hearts"),
      Card(7, "spades"), Card(2, "clubs"), Card(9, "diamonds"), Card(9, "hearts"),
      Card(10, "hearts"), Card(11, "hearts"), Card(12, "hearts"), Card(13, "hearts"),
      Card(14, "hearts"), Card(2, "hearts"), Card(8, "diamonds")>>

\* The community cards on the table at a showdown: flop, turn or river.
CommunitySizes == {3, 4, 5}

\* The positions of the deck a hand may start from.
FirstCards == {1, 9}

\* DeckCards read from position `first` on and around.
DeckFrom(first) ==
    [i \in DOMAIN DeckCards |-> DeckCards[((first + i - 2) % Len(DeckCards)) + 1]]

\* [...hand, ...community] : the cards of S in the order of DeckFrom(first),
\* the two hole cards first
AllCards(S, first) == SelectSeq(DeckFrom(first), LAMBDA c : c \in S)

HandsInit ==
    /\ pot = NewPot(0)
    /\ deck = NoDeck
    /\ \E S \in SUBSET {DeckCards[i] : i \in DOMAIN DeckCards}, first \in FirstCards :
          /\ Cardinality(S) \in {2 + n : n \in CommunitySizes}
          /\ call = [op |-> "arguments", amount |-> 0, returns |-> TRUE,
                     value |-> [allCards |-> AllCards(S, first)]]
    /\ NoLedger
    /\ NoTable

\* evaluator.evaluate(hand, community)
HandsEvaluate ==
    /\ call.op = "arguments"
    /\ call' = [op |-> "evaluate", amount |-> 0, returns |-> TRUE,
                value |-> [allCards |-> call.value.allCards,
                           result |-> Evaluate(call.value.allCards)]]
    /\ UNCHANGED <<pot, deck, ledgerVars, gameVars>>

HandsNext == HandsEvaluate

SpecHands == HandsInit /\ [][HandsNext]_vars

\* ------------------------------------- SpecCompare: two evaluated hands
\* Five cards of the given values, all of one suit.
Suited(values, suit) == [i \in DOMAIN values |-> Card(values[i], suit)]

\* Five cards of the given values, of suits that form no flush.
Offsuit(values) ==
    [i \in DOMAIN values |->
        Card(values[i], <<"clubs", "diamonds", "hearts", "spades", "clubs">>[i])]

\* The hands that sit across the table from the hand drawn from DeckCards:
\* the weakest and the strongest hand of each category, a pair and a full
\* house whose side cards outweigh their combination or are outweighed by
\* it, and a wheel found among seven cards.
Opponents ==
    {Offsuit(<<7, 5, 4, 3, 2>>), Offsuit(<<14, 13, 12, 11, 9>>),
     Offsuit(<<2, 2, 5, 4, 3>>), Offsuit(<<14, 14, 13, 12, 11>>),
     Offsuit(<<3, 3, 2, 2, 4>>), Offsuit(<<14, 14, 13, 13, 12>>),
     Offsuit(<<2, 2, 2, 4, 3>>), Offsuit(<<14, 14, 14, 13, 12>>),
     Offsuit(<<14, 2, 3, 4, 5>>), Offsuit(<<10, 11, 12, 13, 14>>),
     Suited(<<7, 5, 4, 3, 2>>, "spades"), Suited(<<14, 13, 12, 11, 9>>, "spades"),
     Offsuit(<<2, 2, 2, 3, 3>>), Offsuit(<<14, 14, 14, 13, 13>>),
     Offsuit(<<2, 2, 2, 2, 3>>), Offsuit(<<14, 14, 14, 14, 13>>),
     Suited(<<14, 2, 3, 4, 5>>, "spades"), Suited(<<9, 10, 11, 12, 13>>, "spades"),
     Suited(<<10, 11, 12, 13, 14>>, "spades"),
     Offsuit(<<8, 8, 4, 3, 2>>), Offsuit(<<3, 3, 3, 14, 14>>),
     <<Card(14, "spades"), Card(2, "spades"), Card(3, "spades"), Card(4, "spades"),
       Card(5, "hearts"), Card(9, "clubs"), Card(13, "diamonds")>>}

\* Two players have shown their cards and evaluateAllHands has evaluated
\* them: hand1 is player A's, hand2 player B's.
CompareInit ==
    /\ pot = NewPot(0)
    /\ deck = NoDeck
    /\ \E other \in Opponents :
          LET hand2 == Evaluate(other)
          IN \E S \in SUBSET {DeckCards[i] : i \in 1..ComparedCards} :
                /\ Cardinality(S) = 5
                /\ call = [op |-> "arguments", amount |-> 0, returns |-> TRUE,
                           value |-> [hand1 |-> Evaluate(AllCards(S, 1)), hand2 |-> hand2]]
    /\ NoLedger
    /\ NoTable

\* evaluator.compareHands(hand1, hand2) and evaluator.compareHands(hand2, hand1)
CompareCompareHands ==
    /\ call.op = "arguments"
    /\ call' = [op |-> "compareHands", amount |-> 0, returns |-> TRUE,
                value |-> [hand1 |-> call.value.hand1, hand2 |-> call.value.hand2,
                           forward |-> CompareHands(call.value.hand1, call.value.hand2),
                           backward |-> CompareHands(call.value.hand2, call.value.hand1)]]
    /\ UNCHANGED <<pot, deck, ledgerVars, gameVars>>

\* PokerGameManager.determineWinners({A: hand1, B: hand2}): the entries
\* sorted by compareHands, stronger first, cut to those whose value is the
\* first entry's.
DetermineWinnersOfTwo(hand1, hand2) ==
    LET sortedPlayers == IF CompareHands(hand2, hand1) > 0 THEN <<"B", "A">> ELSE <<"A", "B">>
        evaluation == [q \in {"A", "B"} |-> IF q = "A" THEN hand1 ELSE hand2]
    IN SelectSeq(sortedPlayers,
                 LAMBDA q : evaluation[q].value = evaluation[sortedPlayers[1]].value)

CompareDetermineWinners ==
    /\ call.op = "arguments"
    /\ call' = [op |-> "determineWinners", amount |-> 0, returns |-> TRUE,
                value |-> [hand1 |-> call.value.hand1, hand2 |-> call.value.hand2,
                           winners |-> DetermineWinnersOfTwo(call.value.hand1,
                                                             call.value.hand2)]]
    /\ UNCHANGED <<pot, deck, ledgerVars, gameVars>>

CompareNext ==
    \/ CompareCompareHands
    \/ CompareDetermineWinners

SpecCompare == CompareInit /\ [][CompareNext]_vars

\* ------------------------------------------------------------- PokerDeck
\* The suits and ranks the deck of the model is made of, in the order of
\* Object.keys(SUITS) and Object.keys(RANKS): three cards stand for the 52.
DeckSuits == <<"hearts">>

DeckRanks == <<2, 3, 4>>

\* reset: one new PokerCard per suit and rank, suit by suit, all face down
NewDeckCards ==
    [i \in 1..(Len(DeckSuits) * Len(DeckRanks)) |->
        Card(DeckRanks[((i - 1) % Len(DeckRanks)) + 1],
             DeckSuits[((i - 1) \div Len(DeckRanks)) + 1])]

Reset == [cards |-> NewDeckCards, usedCards |-> <<>>, burnedCards |-> <<>>, faceUp |-> {}]

\* What Math.random() gives throughout one shuffle: the least it can, or
\* the most.
RandomDraws == {"low", "high"}

\* Math.floor(Math.random() * currentIndex)
RandomIndex(r, currentIndex) == IF r = "low" THEN 0 ELSE currentIndex - 1

\* [cards[i], cards[j]] = [cards[j], cards[i]], on indices from 0
Swap(cards, i, j) ==
    [k \in DOMAIN cards |->
        IF k = i + 1 THEN cards[j + 1] ELSE IF k = j + 1 THEN cards[i + 1] ELSE cards[k]]

\* shuffle: the Fisher-Yates loop from currentIndex down
RECURSIVE ShuffleFrom(_, _, _)
ShuffleFrom(cards, currentIndex, r) ==
    IF currentIndex = 0 THEN cards
    ELSE ShuffleFrom(Swap(cards, currentIndex - 1, RandomIndex(r, currentIndex)),
                     currentIndex - 1, r)

Shuffle(d, r) == [d EXCEPT !.cards = ShuffleFrom(d.cards, Len(d.cards), r)]

\* restoreUsedCards
RestoreUsedCards(d, r) ==
    Shuffle([d EXCEPT !.cards = d.cards \o d.usedCards \o d.burnedCards,
                      !.usedCards = <<>>, !.burnedCards = <<>>], r)

\* deal from the splice on: the first `count` cards of d, or what there is
DealFrom(d, dealt, faceUp) ==
    [deck |-> [d EXCEPT !.cards = SubSeq(d.cards, Len(dealt) + 1, Len(d.cards)),
                        !.usedCards = d.usedCards \o dealt,
                        !.faceUp = IF faceUp THEN d.faceUp \union Range(dealt)
                                   ELSE d.faceUp \ Range(dealt)],
     dealt |-> dealt]

DealSplice(d, count, faceUp) == DealFrom(d, SubSeq(d.cards, 1, Min(count, Len(d.cards))), faceUp)

\* deal(count, faceUp): short of cards, it restores the used and burned
\* cards first
Deal(d, count, faceUp, r) ==
    DealSplice(IF Len(d.cards) < count THEN RestoreUsedCards(d, r) ELSE d, count, faceUp)

\* burnCard from the deal on
BurnDealt(t) == [t.deck EXCEPT !.burnedCards = t.deck.burnedCards \o t.dealt]

\* burnCard
BurnCard(d) == IF Len(d.cards) = 0 THEN d ELSE BurnDealt(DealSplice(d, 1, FALSE))

\* ------------------------------------------------ SpecDeck: one PokerDeck
\* How many cards deal is asked for: a turn or river card, the hole cards,
\* the flop, and more than the deck has.
DealCounts == {1, 2, 3, Len(NewDeckCards) + 1}

\* The entries of the three collections taken together.
DeckEntries(d) == Len(d.cards) + Len(d.usedCards) + Len(d.burnedCards)

DeckInit ==
    /\ pot = NewPot(0)
    /\ deck = Reset
    /\ call = NoCall
    /\ NoLedger
    /\ NoTable

DeckReset ==
    /\ deck' = Reset
    /\ call' = [op |-> "reset", amount |-> 0, returns |-> TRUE, value |-> <<>>]
    /\ UNCHANGED <<pot, ledgerVars, gameVars>>

DeckShuffle ==
    /\ \E r \in RandomDraws : deck' = Shuffle(deck, r)
    /\ call' = [op |-> "shuffle", amount |-> 0, returns |-> TRUE, value |-> <<>>]
    /\ UNCHANGED <<pot, ledgerVars, gameVars>>

\* deck.deal(count, faceUp); no path of deal throws
DeckDeal ==
    /\ \E count \in DealCounts, faceUp \in BOOLEAN, r \in RandomDraws :
          /\ Len(deck.cards) < count => DeckEntries(deck) <= Len(NewDeckCards) + MaxExtraCards
          /\ deck' = Deal(deck, count, faceUp, r).deck
          /\ call' = [op |-> "deal", amount |-> count, returns |-> TRUE,
                      value |-> Deal(deck, count, faceUp, r).dealt]
    /\ UNCHANGED <<pot, ledgerVars, gameVars>>

DeckBurnCard ==
    /\ deck' = BurnCard(deck)
    /\ call' = [op |-> "burnCard", amount |-> 0, returns |-> TRUE, value |-> <<>>]
    /\ UNCHANGED <<pot, ledgerVars, gameVars>>

DeckRestoreUsedCards ==
    /\ DeckEntries(deck) <= Len(NewDeckCards) + MaxExtraCards
    /\ \E r \in RandomDraws : deck' = RestoreUsedCards(deck, r)
    /\ call' = [op |-> "restoreUsedCards", amount |-> 0, returns |-> TRUE, value |-> <<>>]
    /\ UNCHANGED <<pot, ledgerVars, gameVars>>

DeckNext ==
    \/ DeckReset
    \/ DeckShuffle
    \/ DeckDeal
    \/ DeckBurnCard
    \/ DeckRestoreUsedCards

SpecDeck == DeckInit /\ [][DeckNext]_vars

\* ----------------------------------------------------------- PokerDealer
\* The PokerGameEngine with its PokerDealer. A player is
\* [userId, position, chips, isActive, cards, bet, lastAction, isAllIn]:
\* cards is the number of hole cards held, lastAction is Null for null.
\* The engine is [gameState, handNumber, pot, currentRound, dealerPosition,
\* communityCards, handHistory, dealing]: communityCards is the number of
\* board cards, handHistory the number of actions recorded, and
\* dealing is where a startNewHand that awaits its delay stands: loop 0 when
\* none is in flight, else the loop of dealPrivateCards, its index i and its
\* startPos. The 52 cards of the deck last for any hand of three players.
DealerPlayer(userId, chips, position) ==
    [userId |-> userId, position |-> position, chips |-> chips, isActive |-> TRUE,
     cards |-> 0, bet |-> 0, lastAction |-> Null, isAllIn |-> FALSE]

NotDealing == [loop |-> 0, i |-> 0, startPos |-> 0]

\* The blinds of applyBlinds
DealerSmallBlind == 50

DealerBigBlind == 100

\* PokerGameEngine.initialize(players): the engine afterwards
NewEngine ==
    [gameState |-> "active", handNumber |-> 1, pot |-> 0, currentRound |-> "preflop",
     dealerPosition |-> 0, communityCards |-> 0, handHistory |-> 0,
     dealing |-> NotDealing]

\* The running state of an engine handler: [game, players, threw].
Dealer(g, ps) == [game |-> g, players |-> ps, threw |-> FALSE]

\* PokerDealer.getCurrentMaxBet
GetCurrentMaxBet(ps) ==
    CHOOSE m \in {ps[i].bet : i \in DOMAIN ps} : \A i \in DOMAIN ps : ps[i].bet <= m

\* PokerDealer.getActivePlayers
DealerActivePlayers(ps) == SelectSeq(ps, LAMBDA pl : pl.isActive)

\* One blind of applyBlinds for the player at index pos
ApplyBlind(D, pos, blind, name) ==
    LET pl == D.players[pos + 1]
        blindAmount == Min(blind, pl.chips)
    IN IF ~pl.isActive THEN D
       ELSE [D EXCEPT !.players[pos + 1] = [pl EXCEPT !.bet = blindAmount,
                                                     !.chips = @ - blindAmount,
                                                     !.lastAction = name],
                      !.game.pot = @ + blindAmount]

\* PokerDealer.applyBlinds
ApplyBlinds(D) ==
    ApplyBlind(ApplyBlind(D, (D.game.dealerPosition + 1) % Len(D.players),
                          DealerSmallBlind, "small blind"),
               (D.game.dealerPosition + 2) % Len(D.players), DealerBigBlind, "big blind")

\* PokerDealer.startNewHand from the end of dealPrivateCards on
StartNewHandRest(D) ==
    [ApplyBlinds(D) EXCEPT !.game.currentRound = "preflop", !.game.dealing = NotDealing]

\* PokerDealer.dealPrivateCards from index i of its loop on, up to the next
\* `await this.delay(50)` or to the end of startNewHand.
RECURSIVE DealPrivateCards(_, _, _, _)
DealPrivateCards(D, loop, i, startPos) ==
    LET n == Len(D.players)
        at == ((startPos + i) % n) + 1
        pl == D.players[at]
    IN IF i >= n
       THEN IF loop = 1 THEN DealPrivateCards(D, 2, 0, startPos) ELSE StartNewHandRest(D)
       ELSE IF loop = 1 /\ pl.isActive /\ pl.chips > 0
       THEN [D EXCEPT !.players[at] = [pl EXCEPT !.cards = @ + 1, !.bet = 0,
                                                 !.lastAction = Null],
                      !.game.dealing = [loop |-> 1, i |-> i, startPos |-> startPos]]
       ELSE IF loop = 2 /\ pl.isActive /\ pl.chips > 0 /\ pl.cards = 1
       THEN [D EXCEPT !.players[at].cards = @ + 1,
                      !.game.dealing = [loop |-> 2, i |-> i, startPos |-> startPos]]
       ELSE DealPrivateCards(D, loop, i + 1, startPos)

\* PokerGameEngine.startHand with PokerDealer.startNewHand, up to the first
\* await that yields.
StartHand(D) ==
    DealPrivateCards([D EXCEPT !.game.handNumber = @ + 1, !.game.communityCards = 0,
                               !.game.pot = 0],
                     1, 0, (D.game.dealerPosition + 1) % Len(D.players))

\* PokerDealer.processPlayerAction for the player at index at (from 1)
DealerProcessPlayerAction(D, at, action, amount) ==
    LET pl == D.players[at]
        maxBet == GetCurrentMaxBet(D.players)
        callAmount == Max(0, maxBet - pl.bet)
        moved(chips, last) ==
            [D EXCEPT !.players[at] = [pl EXCEPT !.bet = @ + chips, !.chips = @ - chips,
                                                 !.lastAction = last],
                      !.game.pot = @ + chips]
    IN IF ~pl.isActive THEN [D EXCEPT !.threw = TRUE]
       ELSE CASE action = "fold" ->
                   [D EXCEPT !.players[at] = [pl EXCEPT !.isActive = FALSE,
                                                        !.lastAction = "fold", !.cards = 0]]
              [] action = "check" ->
                   IF pl.bet < maxBet THEN [D EXCEPT !.threw = TRUE]
                   ELSE [D EXCEPT !.players[at].lastAction = "check"]
              [] action = "call" ->
                   IF callAmount > pl.chips THEN [D EXCEPT !.threw = TRUE]
                   ELSE moved(callAmount, "call")
              [] action \in {"bet", "raise"} ->
                   IF \/ amount <= 0
                      \/ amount > pl.chips
                      \/ action = "raise" /\ amount <= maxBet
                   THEN [D EXCEPT !.threw = TRUE]
                   ELSE moved(amount, action)
              [] action = "allin" ->
                   [moved(pl.chips, "allin") EXCEPT !.players[at].isAllIn = TRUE]

\* PokerGameEngine.isRoundComplete
EngineIsRoundComplete(D) ==
    LET activePlayers == DealerActivePlayers(D.players)
        maxBet == GetCurrentMaxBet(D.players)
    IN IF Len(activePlayers) <= 1 THEN TRUE
       ELSE /\ \A i \in DOMAIN activePlayers : activePlayers[i].bet = maxBet
            /\ \A i \in DOMAIN activePlayers : activePlayers[i].lastAction # Null

\* PokerDealer.determineWinners: a sequence of [userId, prize]; handValue is
\* what the evaluator makes of each player's cards.
DealerDetermineWinners(D, handValue) ==
    LET activePlayers == SelectSeq(D.players, LAMBDA pl : pl.isActive /\ pl.cards = 2)
        ids == [i \in DOMAIN activePlayers |-> activePlayers[i].userId]
        sorted == SortByStrength(ids, handValue)
        winners == SelectSeq(sorted, LAMBDA q : handValue[q] = handValue[sorted[1]])
    IN IF Len(activePlayers) = 0 THEN <<>>
       ELSE IF Len(activePlayers) = 1 THEN <<[userId |-> ids[1], prize |-> D.game.pot]>>
       ELSE [i \in DOMAIN winners |->
                [userId |-> winners[i],
                 prize |-> (D.game.pot \div Len(winners))
                           + IF i - 1 < D.game.pot % Len(winners) THEN 1 ELSE 0]]

\* PokerGameEngine.distributePrizes
DistributePrizes(D, winners) ==
    LET prizeOf(q) == SumSeq([i \in DOMAIN winners |->
                                 IF winners[i].userId = q THEN winners[i].prize ELSE 0])
        paid == [i \in DOMAIN D.players |->
                    [D.players[i] EXCEPT !.chips = @ + prizeOf(D.players[i].userId)]]
        left == [i \in DOMAIN paid |->
                    IF paid[i].chips <= 0 THEN [paid[i] EXCEPT !.isActive = FALSE]
                    ELSE paid[i]]
    IN IF winners = <<>> THEN D
       ELSE [D EXCEPT !.players = left,
                      !.game.gameState = IF Len(DealerActivePlayers(left)) = 1
                                         THEN "finished" ELSE @]

\* PokerDealer.resetForNewHand
DealerResetForNewHand(D) ==
    [D EXCEPT !.players = [i \in DOMAIN D.players |->
                              [D.players[i] EXCEPT !.cards = 0, !.bet = 0,
                                                   !.lastAction = Null, !.isAllIn = FALSE]],
              !.game.communityCards = 0,
              !.game.pot = 0,
              !.game.handHistory = 0,
              !.game.dealerPosition = (@ + 1) % Len(D.players),
              !.game.currentRound = "preflop"]

\* PokerGameEngine.advanceRound with dealFlop, dealTurn and dealRiver, none
\* of which awaits anything that yields.
AdvanceRound(D, handValue) ==
    CASE D.game.currentRound = "preflop" ->
           [D EXCEPT !.game.communityCards = 3, !.game.currentRound = "flop"]
      [] D.game.currentRound = "flop" ->
           [D EXCEPT !.game.communityCards = @ + 1, !.game.currentRound = "turn"]
      [] D.game.currentRound = "turn" ->
           [D EXCEPT !.game.communityCards = @ + 1, !.game.currentRound = "river"]
      [] D.game.currentRound = "river" ->
           DealerResetForNewHand(DistributePrizes(D, DealerDetermineWinners(D, handValue)))

\* PokerGameEngine.playerAction, with what processPlayerAction gave
PlayerActionDone(D, handValue) ==
    IF D.threw THEN D
    ELSE IF EngineIsRoundComplete(D) THEN AdvanceRound(D, handValue)
    ELSE D

\* processPlayerAction, lines 816-832: the action goes into the history
Recorded(D) == IF D.threw THEN D ELSE [D EXCEPT !.game.handHistory = @ + 1]

\* PokerGameEngine.playerAction for the player at index at (from 1)
PlayerAction(D, at, action, amount, handValue) ==
    PlayerActionDone(Recorded(DealerProcessPlayerAction(D, at, action, amount)), handValue)

\* ------------------------------------------- SpecDealer: one engine's hands
\* The players engine.initialize is given, and the stacks they come with.
DealerSeats == <<"A", "B">>

DealerStacks == {DealerSmallBlind, DealerBigBlind}

\* The actions the players try, a bet or a raise being of one small blind.
DealerActions == {"fold", "check", "call", "bet", "allin"}

\* What the evaluator may make of the hands at a showdown.
DealerHands == {h \in HandValues : \A p \in Players : h[p] # 1 => \E i \in DOMAIN DealerSeats : DealerSeats[i] = p}

DealerInit ==
    /\ pot = NewPot(0)
    /\ deck = NoDeck
    /\ call = NoCall
    /\ pc = "idle"
    /\ posted = [p \in Players |-> 0]
    /\ showdownArgs = <<>>
    /\ showdownCalls = 0
    /\ folded = {}
    /\ potManager = NewPotManager
    /\ game = NewEngine
    /\ \E chips \in [1..Len(DealerSeats) -> DealerStacks] :
          players = [i \in 1..Len(DealerSeats) |-> DealerPlayer(DealerSeats[i], chips[i], i - 1)]

\* What an engine handler leaves behind and what its caller saw.
DealerCalled(D, op, args) ==
    /\ game' = D.game
    /\ players' = D.players
    /\ call' = [op |-> op, amount |-> 0, returns |-> ~D.threw, value |-> args]
    /\ UNCHANGED <<pot, deck, potManager, pc, posted, showdownArgs, showdownCalls, folded>>

\* engine.startHand(), while no other startNewHand is in flight
DealerStartHand ==
    /\ game.gameState = "active"
    /\ Len(DealerActivePlayers(players)) >= 2
    /\ game.dealing.loop = 0
    /\ game.handNumber < MaxHands
    /\ DealerCalled(StartHand(Dealer(game, players)), "startHand", <<>>)

\* The delay that dealPrivateCards awaits is over.
DealerDelayOver ==
    /\ game.dealing.loop # 0
    /\ DealerCalled(DealPrivateCards(Dealer(game, players), game.dealing.loop,
                                     game.dealing.i + 1, game.dealing.startPos),
                    "delay", <<>>)

\* engine.playerAction(playerId, action, amount)
DealerPlayerAction(at, action, amount) ==
    /\ game.handHistory < MaxHistory
    /\ \E h \in (IF game.currentRound = "river" THEN DealerHands ELSE {[p \in Players |-> 1]}) :
          DealerCalled(PlayerAction(Dealer(game, players), at, action, amount, h),
                       "playerAction", <<>>)

DealerNext ==
    \/ DealerStartHand
    \/ DealerDelayOver
    \/ \E at \in 1..Len(DealerSeats), action \in DealerActions :
          DealerPlayerAction(at, action, DealerSmallBlind)

SpecDealer == DealerInit /\ [][DealerNext]_vars

\* ------------------------------- PokerDealer as poker-manager.js has it
\* poker-manager.js carries its own PokerDealer and PokerGameEngine, which
\* await nothing and keep currentMaxBet and hasActedThisRound. The engine
\* is [gameState, handNumber, pot, currentRound, dealerPosition,
\* communityCards, currentMaxBet, handStartTotal]; handStartTotal is history,
\* the chips in the stacks when the last hand was started. handHistory is a
\* log no handler reads and is left out. determineWinners and
\* distributePrizes are those of the other copy, line for line.
TablePlayer(userId, chips, position) ==
    [userId |-> userId, position |-> position, chips |-> chips, isActive |-> TRUE,
     cards |-> 0, bet |-> 0, lastAction |-> Null, isAllIn |-> FALSE,
     hasActedThisRound |-> FALSE]

\* The sum of the players' stacks.
StacksOf(ps) == SumSeq([i \in DOMAIN ps |-> ps[i].chips])

\* PokerGameEngine.initialize(players): the engine afterwards
NewTableEngine(ps) ==
    [gameState |-> "active", handNumber |-> 1, pot |-> 0, currentRound |-> "preflop",
     dealerPosition |-> 0, communityCards |-> 0, currentMaxBet |-> 0,
     handStartTotal |-> StacksOf(ps)]

\* PokerDealer.getActivePlayers
TableActivePlayers(ps) == SelectSeq(ps, LAMBDA pl : pl.isActive /\ pl.chips > 0)

\* PokerDealer.dealPrivateCards
TableDealPrivateCards(D) ==
    [D EXCEPT !.players =
        [i \in DOMAIN D.players |->
            IF D.players[i].isActive /\ D.players[i].chips > 0
            THEN [D.players[i] EXCEPT !.cards = 2, !.bet = 0, !.lastAction = Null,
                                       !.isAllIn = FALSE, !.hasActedThisRound = FALSE]
            ELSE D.players[i]]]

\* One blind of applyBlinds for the player at index pos
TableApplyBlind(D, pos, blind, name) ==
    LET pl == D.players[pos + 1]
        blindAmount == Min(blind, pl.chips)
    IN IF ~pl.isActive THEN D
       ELSE [D EXCEPT !.players[pos + 1] = [pl EXCEPT !.bet = blindAmount,
                                                     !.chips = @ - blindAmount,
                                                     !.lastAction = name,
                                                     !.hasActedThisRound = TRUE],
                      !.game.pot = @ + blindAmount,
                      !.game.currentMaxBet = Max(@, blindAmount)]

\* PokerDealer.applyBlinds
TableApplyBlinds(D) ==
    TableApplyBlind(TableApplyBlind(D, (D.game.dealerPosition + 1) % Len(D.players),
                                    DealerSmallBlind, "small blind"),
                    (D.game.dealerPosition + 2) % Len(D.players), DealerBigBlind, "big blind")

\* PokerDealer.startNewHand
TableStartNewHand(D) ==
    [TableApplyBlinds(TableDealPrivateCards(
         [D EXCEPT !.game.communityCards = 0, !.game.pot = 0, !.game.currentMaxBet = 0]))
     EXCEPT !.game.currentRound = "preflop"]

\* PokerGameEngine.startHand
TableStartHand(D) ==
    IF D.game.gameState # "active" \/ Len(TableActivePlayers(D.players)) < 2
    THEN [D EXCEPT !.threw = TRUE]
    ELSE TableStartNewHand([D EXCEPT !.game.handNumber = @ + 1,
                                     !.game.handStartTotal = StacksOf(D.players)])

\* PokerDealer.processPlayerAction for the player at index at (from 1)
TableProcessPlayerAction(D, at, action, amount) ==
    LET pl == D.players[at]
        maxBet == D.game.currentMaxBet
        callAmount == Max(0, maxBet - pl.bet)
    IN IF ~pl.isActive THEN [D EXCEPT !.threw = TRUE]
       ELSE CASE action = "fold" ->
                   [D EXCEPT !.players[at] = [pl EXCEPT !.isActive = FALSE,
                                                        !.lastAction = "fold", !.cards = 0,
                                                        !.hasActedThisRound = TRUE]]
              [] action = "check" ->
                   IF pl.bet < maxBet THEN [D EXCEPT !.threw = TRUE]
                   ELSE [D EXCEPT !.players[at] = [pl EXCEPT !.lastAction = "check",
                                                             !.hasActedThisRound = TRUE]]
              [] action = "call" ->
                   IF callAmount > pl.chips
                   THEN [D EXCEPT !.players[at] = [pl EXCEPT !.lastAction = "allin",
                                                             !.bet = @ + pl.chips,
                                                             !.chips = 0,
                                                             !.isAllIn = TRUE,
                                                             !.hasActedThisRound = TRUE],
                                  !.game.pot = @ + pl.chips,
                                  !.game.currentMaxBet = Max(@, pl.bet + pl.chips)]
                   ELSE [D EXCEPT !.players[at] = [pl EXCEPT !.bet = @ + callAmount,
                                                             !.chips = @ - callAmount,
                                                             !.lastAction = "call",
                                                             !.hasActedThisRound = TRUE],
                                  !.game.pot = @ + callAmount]
              [] action = "bet" ->
                   IF amount <= 0 \/ amount > pl.chips \/ maxBet > 0
                   THEN [D EXCEPT !.threw = TRUE]
                   ELSE [D EXCEPT !.players[at] = [pl EXCEPT !.bet = amount,
                                                             !.chips = @ - amount,
                                                             !.lastAction = "bet",
                                                             !.hasActedThisRound = TRUE],
                                  !.game.pot = @ + amount,
                                  !.game.currentMaxBet = amount]
              [] action = "raise" ->
                   IF amount <= 0 \/ amount > pl.chips \/ amount <= maxBet
                   THEN [D EXCEPT !.threw = TRUE]
                   ELSE [D EXCEPT !.players[at] = [pl EXCEPT !.bet = @ + amount,
                                                             !.chips = @ - amount,
                                                             !.lastAction = "raise",
                                                             !.hasActedThisRound = TRUE],
                                  !.game.pot = @ + amount,
                                  !.game.currentMaxBet = pl.bet + amount]
              [] action = "allin" ->
                   [D EXCEPT !.players[at] = [pl EXCEPT !.bet = @ + pl.chips,
                                                        !.chips = 0,
                                                        !.lastAction = "allin",
                                                        !.isAllIn = TRUE,
                                                        !.hasActedThisRound = TRUE],
                             !.game.pot = @ + pl.chips,
                             !.game.currentMaxBet = Max(@, pl.bet + pl.chips)]

\* PokerDealer.resetPlayerActionsForNewRound
ResetPlayerActionsForNewRound(ps) ==
    [i \in DOMAIN ps |->
        IF ps[i].isActive /\ ps[i].lastAction # "fold"
        THEN [ps[i] EXCEPT !.lastAction = Null, !.bet = 0, !.hasActedThisRound = FALSE]
        ELSE ps[i]]

\* PokerDealer.resetForNewHand
TableResetForNewHand(D) ==
    [D EXCEPT !.players = [i \in DOMAIN D.players |->
                              [D.players[i] EXCEPT
                                  !.cards = 0, !.bet = 0, !.lastAction = Null,
                                  !.isAllIn = FALSE, !.hasActedThisRound = FALSE,
                                  !.isActive = IF D.players[i].chips <= 0 THEN FALSE ELSE @]],
              !.game.communityCards = 0,
              !.game.pot = 0,
              !.game.currentMaxBet = 0,
              !.game.dealerPosition = (@ + 1) % Len(D.players),
              !.game.currentRound = "preflop"]

\* dealFlop, dealTurn and dealRiver, to the round `next` with `count` more
\* cards on the board
TableDeal(D, next, count) ==
    [D EXCEPT !.game.communityCards = @ + count,
              !.game.currentRound = next,
              !.game.currentMaxBet = 0,
              !.players = ResetPlayerActionsForNewRound(@)]

\* PokerGameEngine.advanceRound; handValue is what the evaluator makes of
\* each player's cards.
TableAdvanceRound(D, handValue) ==
    CASE D.game.currentRound = "preflop" -> TableDeal(D, "flop", 3)
      [] D.game.currentRound = "flop" -> TableDeal(D, "turn", 1)
      [] D.game.currentRound = "turn" -> TableDeal(D, "river", 1)
      [] D.game.currentRound = "river" ->
           TableResetForNewHand(DistributePrizes(D, DealerDetermineWinners(D, handValue)))

\* --------------------------------------- SpecEngine: that engine's hands
\* The players engine.initialize is given, and the stacks they come with.
TableSeats == <<"A", "B">>


EngineInit ==
    /\ pot = NewPot(0)
    /\ deck = NoDeck
    /\ call = NoCall
    /\ pc = "idle"
    /\ posted = [p \in Players |-> 0]
    /\ showdownArgs = <<>>
    /\ showdownCalls = 0
    /\ folded = {}
    /\ potManager = NewPotManager
    /\ \E chips \in [1..Len(TableSeats) -> DealerStacks] :
          /\ players = [i \in 1..Len(TableSeats) |-> TablePlayer(TableSeats[i], chips[i], i - 1)]
          /\ game = NewTableEngine(players)

\* engine.startHand()
EngineStartHand ==
    /\ game.handNumber < MaxHands
    /\ DealerCalled(TableStartHand(Dealer(game, players)), "startHand", <<>>)

\* engine.playerAction(playerId, action, amount)
EnginePlayerAction(at, action, amount) ==
    /\ at \in DOMAIN players
    /\ DealerCalled(TableProcessPlayerAction(Dealer(game, players), at, action, amount),
                    "playerAction", <<>>)

\* engine.advanceRound()
EngineAdvanceRound ==
    \E h \in (IF game.currentRound = "river" THEN HandValues ELSE {[p \in Players |-> 1]}) :
       DealerCalled(TableAdvanceRound(Dealer(game, players), h), "advanceRound", <<>>)

EngineNext ==
    \/ EngineStartHand
    \/ \E at \in 1..Len(TableSeats), action \in Actions :
          EnginePlayerAction(at, action, DealerSmallBlind)
    \/ EngineAdvanceRound

SpecEngine == EngineInit /\ [][EngineNext]_vars

\* ------------------------------------------------------ PokerTournament
\* A tournament of the default configuration (SNG, STANDARD payout, at
\* least MinEntrants and at most 9 players, buy-in 100, no bounty, no
\* rebuy). The tournament is [status, isPaused, registeredCount, activeCount,
\* eliminatedCount, currentLevel, totalPrizePool, paidPlaces,
\* prizeDistribution, finalRankings]: prizeDistribution is the amounts by
\* place, finalRankings the userIds by rank. A player is [userId, stack,
\* isActive, isEliminated, eliminatedAt, finalPosition, prize]; eliminatedAt
\* is the time of the elimination, counted in eliminations (0 when none).
\* The tables, the break clock and the event log are read by none of these
\* handlers and are left out.
\* Eliminations followed in one tournament.
MaxEliminations == 3

MinEntrants == 2

MaxEntrants == 9

TournamentStack == 1500

BuyIn == 100

\* PAYOUT_STRUCTURES.STANDARD, in percent
PayoutStructure == <<50, 30, 20>>

TournamentPlayer(userId) ==
    [userId |-> userId, stack |-> TournamentStack, isActive |-> TRUE,
     isEliminated |-> FALSE, eliminatedAt |-> 0, finalPosition |-> 0, prize |-> 0]

\* The running state of a tournament handler: [game, players, threw, ret].
Tournament(t, ps) == [game |-> t, players |-> ps, threw |-> FALSE, ret |-> TRUE]

\* PokerTournament.calculatePrizePool with calculatePaidPlaces and
\* calculatePrizeDistribution
CalculatePrizePool(t) ==
    LET prizePool == t.registeredCount * BuyIn
        places == Max(1, (t.registeredCount * 15) \div 100)
        paidPlaces == IF Len(PayoutStructure) < places THEN Len(PayoutStructure) ELSE places
    IN [t EXCEPT !.totalPrizePool = prizePool,
                 !.paidPlaces = paidPlaces,
                 !.prizeDistribution =
                     [i \in 1..paidPlaces |-> (prizePool * PayoutStructure[i]) \div 100]]

\* new PokerTournament(config)
NewTournament ==
    CalculatePrizePool(
        [status |-> "registering", isPaused |-> FALSE, registeredCount |-> 0,
         activeCount |-> 0, eliminatedCount |-> 0, currentLevel |-> 0,
         totalPrizePool |-> 0, paidPlaces |-> 0, prizeDistribution |-> <<>>,
         finalRankings |-> <<>>])

\* PokerTournament.registerPlayer
RegisterPlayer(T, userId) ==
    IF \/ T.game.status # "registering"
       \/ T.game.registeredCount >= MaxEntrants
       \/ \E i \in DOMAIN T.players : T.players[i].userId = userId
    THEN [T EXCEPT !.threw = TRUE]
    ELSE [T EXCEPT !.players = Append(@, TournamentPlayer(userId)),
                   !.game = CalculatePrizePool([@ EXCEPT !.registeredCount = @ + 1,
                                                         !.activeCount = @ + 1])]

\* PokerTournament.unregisterPlayer
UnregisterPlayer(T, userId) ==
    IF T.game.status # "registering" THEN [T EXCEPT !.threw = TRUE]
    ELSE IF ~\E i \in DOMAIN T.players : T.players[i].userId = userId
    THEN [T EXCEPT !.ret = FALSE]
    ELSE [T EXCEPT !.players = SelectSeq(@, LAMBDA pl : pl.userId # userId),
                   !.game = CalculatePrizePool([@ EXCEPT !.registeredCount = @ - 1,
                                                         !.activeCount = @ - 1])]

\* PokerTournament.start, with advanceLevel from level 0
TournamentStart(T) ==
    IF T.game.status # "registering" \/ T.game.registeredCount < MinEntrants
    THEN [T EXCEPT !.threw = TRUE]
    ELSE [T EXCEPT !.game.status = "active", !.game.currentLevel = 1]

\* PokerTournament.pause
TournamentPause(T) ==
    IF T.game.isPaused THEN [T EXCEPT !.ret = FALSE]
    ELSE [T EXCEPT !.game.isPaused = TRUE, !.game.status = "paused"]

\* PokerTournament.resume
TournamentResume(T) ==
    IF ~T.game.isPaused THEN [T EXCEPT !.ret = FALSE]
    ELSE [T EXCEPT !.game.isPaused = FALSE, !.game.status = "active"]

\* Array.prototype.sort with (a, b) => a.finalPosition - b.finalPosition
RECURSIVE InsertByFinalPosition(_, _)
InsertByFinalPosition(sorted, pl) ==
    IF sorted = <<>> THEN <<pl>>
    ELSE IF Head(sorted).finalPosition <= pl.finalPosition
         THEN <<Head(sorted)>> \o InsertByFinalPosition(Tail(sorted), pl)
         ELSE <<pl>> \o sorted

RECURSIVE SortByFinalPosition(_)
SortByFinalPosition(ps) ==
    IF ps = <<>> THEN <<>>
    ELSE InsertByFinalPosition(SortByFinalPosition(SubSeq(ps, 1, Len(ps) - 1)), ps[Len(ps)])

\* PokerTournament.createFinalRankings: the players in ranking order
CreateFinalRankings(ps) ==
    LET activePlayers == SelectSeq(ps, LAMBDA pl : pl.isActive)
        reversed == [i \in DOMAIN activePlayers |-> activePlayers[Len(activePlayers) + 1 - i]]
    IN reversed \o SortByFinalPosition(SelectSeq(ps, LAMBDA pl : pl.isEliminated))

\* PokerTournament.finish with createFinalRankings and distributePrizes
TournamentFinish(T) ==
    IF T.game.status = "finished" THEN [T EXCEPT !.ret = FALSE]
    ELSE LET rankings == CreateFinalRankings(T.players)
             rankOf(q) == CHOOSE k \in DOMAIN rankings : rankings[k].userId = q
             ranked == [i \in DOMAIN T.players |->
                          [T.players[i] EXCEPT
                              !.finalPosition = rankOf(T.players[i].userId),
                              !.prize = IF rankOf(T.players[i].userId) <= T.game.paidPlaces
                                        THEN T.game.prizeDistribution[rankOf(T.players[i].userId)]
                                        ELSE @]]
         IN [T EXCEPT !.players = ranked,
                      !.game.status = "finished",
                      !.game.finalRankings = [k \in DOMAIN rankings |-> rankings[k].userId]]

\* PokerTournament.eliminatePlayer
EliminatePlayer(T, playerId) ==
    LET at == {i \in DOMAIN T.players : T.players[i].userId = playerId}
        i == CHOOSE j \in at : TRUE
        T1 == [T EXCEPT !.players[i] = [@ EXCEPT !.isActive = FALSE, !.isEliminated = TRUE,
                                                 !.eliminatedAt = T.game.eliminatedCount + 1,
                                                 !.stack = 0,
                                                 !.finalPosition = T.game.eliminatedCount + 1],
                        !.game.activeCount = @ - 1,
                        !.game.eliminatedCount = @ + 1]
    IN IF at = {} THEN [T EXCEPT !.ret = FALSE]
       ELSE IF T.players[i].isEliminated THEN [T EXCEPT !.ret = FALSE]
       ELSE IF T1.game.activeCount = 1 THEN [TournamentFinish(T1) EXCEPT !.ret = TRUE]
       ELSE T1

\* --------------------------------------- SpecTournament: one tournament
TournamentInit ==
    /\ pot = NewPot(0)
    /\ deck = NoDeck
    /\ call = NoCall
    /\ pc = "idle"
    /\ posted = [p \in Players |-> 0]
    /\ showdownArgs = <<>>
    /\ showdownCalls = 0
    /\ folded = {}
    /\ potManager = NewPotManager
    /\ game = NewTournament
    /\ players = <<>>

\* What a tournament handler leaves behind and what its caller saw.
TournamentCalled(T, op) ==
    /\ game' = T.game
    /\ players' = T.players
    /\ call' = [op |-> op, amount |-> 0, returns |-> ~T.threw, value |-> T.ret]
    /\ UNCHANGED <<pot, deck, potManager, pc, posted, showdownArgs, showdownCalls, folded>>

CallRegisterPlayer(userId) ==
    /\ userId \in Players
    /\ TournamentCalled(RegisterPlayer(Tournament(game, players), userId), "registerPlayer")

CallUnregisterPlayer(userId) ==
    /\ userId \in Players
    /\ TournamentCalled(UnregisterPlayer(Tournament(game, players), userId), "unregisterPlayer")

CallStart ==
    /\ pc = "idle"
    /\ TournamentCalled(TournamentStart(Tournament(game, players)), "start")

CallPause ==
    /\ pc = "idle"
    /\ TournamentCalled(TournamentPause(Tournament(game, players)), "pause")

CallResume ==
    /\ pc = "idle"
    /\ TournamentCalled(TournamentResume(Tournament(game, players)), "resume")

CallEliminatePlayer(playerId) ==
    /\ playerId \in Players
    /\ game.eliminatedCount < MaxEliminations
    /\ TournamentCalled(EliminatePlayer(Tournament(game, players), playerId), "eliminatePlayer")

CallFinish ==
    /\ pc = "idle"
    /\ TournamentCalled(TournamentFinish(Tournament(game, players)), "finish")

TournamentNext ==
    \/ \E p \in Players : CallRegisterPlayer(p)
    \/ \E p \in Players : CallUnregisterPlayer(p)
    \/ CallStart
    \/ CallPause
    \/ CallResume
    \/ \E p \in Players : CallEliminatePlayer(p)
    \/ CallFinish

SpecTournament == TournamentInit /\ [][TournamentNext]_vars

\* ----------------------------------------------------------- SpecAction
\* processPlayerAction applied once to a table in the middle of a betting
\* round: any player asks for any action with any amount. The player whose
\* turn it is may be short of chips.
ActionStandings == Standings \cup {"raised"}

\* A round with a raise has one raise, over a bet.
WellFormedAction(standing) ==
    /\ WellFormedRound(standing)
    /\ Cardinality({p \in Players : standing[p] = "raised"}) <= 1
    /\ (\E p \in Players : standing[p] = "raised") => (\E p \in Players : standing[p] = "bet")

ActionRounds == {"preflop", "river"}

\* Stacks of the player whose turn it is: below the small blind, between the
\* big blind and a minimum raise, and untouched.
ShortStacks == {5, 30, StartingStack}

\* "muck" is no action of the game.
ActionNames == Actions \cup {"muck"}

ActionAmounts == {0, SmallBlind, BigBlind, 2 * BigBlind, StartingStack + 500}

\* The players with the stack of the player whose turn it is set to `stack`
\* (StartingStack: as the round left it).
WithStack(ps, userId, stack) ==
    [i \in DOMAIN ps |->
        IF ps[i].userId = userId /\ stack # StartingStack
        THEN [ps[i] EXCEPT !.chips = stack] ELSE ps[i]]

ActionInit ==
    /\ pot = NewPot(0)
    /\ deck = NoDeck
    /\ pc = "idle"
    /\ posted = [p \in Players |-> 0]
    /\ showdownArgs = <<>>
    /\ showdownCalls = 0
    /\ folded = {}
    /\ \E round \in ActionRounds, standing \in [Players -> ActionStandings],
          stack \in ShortStacks :
          /\ WellFormedAction(standing)
          /\ game = RestoredGame(round, standing)
          /\ players = WithStack(RestoredPlayers(standing), game.currentPlayerTurn, stack)
          /\ potManager = PotManagerFromJSON(
                              LayeredSnapshot([p \in Players |-> RoundBet(standing[p])], {}))
    /\ \E p \in Players, action \in ActionNames, amount \in ActionAmounts :
          call = [op |-> "arguments", amount |-> 0, returns |-> TRUE,
                  value |-> [args |-> <<p, action, amount>>]]

\* game.processPlayerAction(playerId, action, amount) with the arguments drawn
ActionProcessPlayerAction ==
    /\ pc = "idle"
    /\ call.op = "arguments"
    /\ \E h \in ShowdownHands :
          Called(ProcessPlayerAction(Table(game, players, potManager),
                                     call.value.args[1], call.value.args[2],
                                     call.value.args[3], h),
                 "processPlayerAction", call.value.args)

ActionNext == ActionProcessPlayerAction

SpecAction == ActionInit /\ [][ActionNext]_vars

\* ------------------------------------------------------------- SpecTurn
\* advanceTurn as processPlayerAction calls it (line 685): the player whose
\* turn it is has just acted, and the others stand anywhere in the round.
TurnInit ==
    /\ pot = NewPot(0)
    /\ deck = NoDeck
    /\ call = NoCall
    /\ pc = "idle"
    /\ posted = [p \in Players |-> 0]
    /\ showdownArgs = <<>>
    /\ showdownCalls = 0
    /\ folded = {}
    /\ \E round \in Rounds, standing \in [Players -> Standings], actor \in Players :
          /\ WellFormedRound(standing)
          /\ standing[actor] # "waiting"
          /\ game = [RestoredGame(round, standing) EXCEPT !.currentPlayerTurn = actor]
          /\ players = RestoredPlayers(standing)
          /\ potManager = PotManagerFromJSON(
                              LayeredSnapshot([p \in Players |-> RoundBet(standing[p])], {}))

TurnNext == GameAdvanceTurn

SpecTurn == TurnInit /\ [][TurnNext]_vars

\* ------------------------------------------------------ claims on the ledger
\* No player has been taken out of a pot they paid into.
NobodyFolded ==
    \A i \in DOMAIN GetAllPots(potManager) :
        \A q \in DOMAIN GetAllPots(potManager)[i].playerContributions :
            GetAllPots(potManager)[i].playerContributions[q].isEligible

ScenarioStakes == [p \in Players |-> IF p = "A" THEN 100 ELSE 300]

\* C2: unequal contributions are layered into a main pot and a side pot. While
\* A posts 100 in all and B and C post 300 each (in any order and in any
\* instalments) every addBet returns, and once all of it is posted the main pot
\* holds 300 with A, B and C eligible and there is exactly one side pot, of 400,
\* with B and C eligible.
C2_SidePotLayering ==
    (NobodyFolded /\ ~potManager.isShowdown /\ \A p \in Players : posted[p] <= ScenarioStakes[p])
    => /\ pc = "idle"
       /\ posted = ScenarioStakes
          => /\ potManager.mainPot.amount = 300
             /\ potManager.mainPot.eligiblePlayers = {"A", "B", "C"}
             /\ Len(potManager.sidePots) = 1
             /\ potManager.sidePots[1].amount = 400
             /\ potManager.sidePots[1].eligiblePlayers = {"B", "C"}

\* The players of S with the best hand value.
BestOf(handValue, S) == {q \in S : \A r \in S : handValue[r] <= handValue[q]}

\* C3: at showdown every pot with a positive amount is paid in full to the
\* best-ranked player(s) among the pot's own eligible set.
C3_PerPotWinners ==
    showdownArgs # <<>>
    => \A i \in DOMAIN GetAllPots(potManager) :
          LET pt == GetAllPots(potManager)[i]
              paid == [k \in DOMAIN pt.winners |->
                          IF pt.winners[k] \in DOMAIN pt.playerContributions
                          THEN pt.playerContributions[pt.winners[k]].wonAmount ELSE 0]
          IN (pt.amount > 0 /\ pt.eligiblePlayers # {})
             => /\ pt.isDistributed
                /\ Range(pt.winners) = BestOf(showdownArgs[1].handValue, pt.eligiblePlayers)
                /\ SumSeq(paid) = pt.amount

\* C4: addBet with a positive amount returns for every ledger; the breakdown
\* it returns sums to the amount, `added` is the amount, totalAmount has grown
\* by the amount, and the breakdown runs from the main pot up the levels.
C4_AddBetPlacesAll ==
    (call.op = "addBet" /\ call.amount > 0)
    => /\ call.returns
       /\ call.value.added = call.amount
       /\ SumSeq([k \in DOMAIN call.value.pots |-> call.value.pots[k].amount]) = call.amount
       /\ call.value.totalAmount = call.value.totalBefore + call.amount
       /\ \A k \in DOMAIN call.value.pots :
             k > 1 => call.value.pots[k - 1].potId < call.value.pots[k].potId

\* C6: a second distributeAllPots in the same hand returns the distribution
\* of the first and changes no pot, no won amount and no total.
C6_DistributeTwice ==
    [][(potManager.isShowdown /\ showdownCalls' = showdownCalls + 1)
       => (call'.value = potManager.lastDistribution /\ potManager' = potManager)]_vars

C6_Witness ==
    /\ showdownCalls = 2
    /\ potManager.lastDistribution # <<>>
    /\ potManager.lastDistribution[1].totalDistributed > 0
    /\ call.op = "distributeAllPots"

\* C36: a player taken out of a pot's eligible set by a fold (the record of
\* the player's contribution says so) is not in that eligible set again for
\* the rest of the hand, whatever is recorded for the player afterwards.
C36_FoldedStayOut ==
    \A q \in DOMAIN pot.playerContributions :
        ~pot.playerContributions[q].isEligible => q \notin pot.eligiblePlayers

\* The bet a player has to reach to be in the k-th pot: the level amounts up
\* to it.
RECURSIVE PotLevel(_, _)
PotLevel(sidePots, k) ==
    IF k = 0 THEN 0 ELSE sidePots[k].levelAmount + PotLevel(sidePots, k - 1)

\* C37: the pots calculateSidePots(players, bets) returns have amounts that
\* sum to the sum of all positive bets, and the eligible players of each pot
\* are exactly the players whose bet reaches that pot's level.
C37_SidePotsLayerTheBets ==
    call.op = "calculateSidePots" =>
       LET ps == call.value.players
           bets == call.value.currentBets
           sidePots == call.value.sidePots
           given == {ps[i] : i \in DOMAIN ps}
       IN /\ SumSeq([k \in DOMAIN sidePots |-> sidePots[k].amount])
                = SumOver(bets, {p \in given : bets[p] > 0})
          /\ \A k \in DOMAIN sidePots :
                /\ sidePots[k].amount > 0
                /\ {sidePots[k].eligiblePlayers[j] : j \in DOMAIN sidePots[k].eligiblePlayers}
                      = {p \in given : bets[p] >= PotLevel(sidePots, k)}

\* Bets of 100, 300 and 300 have given a pot of 300 for all three players and
\* a pot of 400 for the two larger bettors.
C37_Witness ==
    /\ call.op = "calculateSidePots"
    /\ call.value.players = <<"B", "A", "C">>
    /\ call.value.currentBets = [A |-> 100, B |-> 300, C |-> 300]
    /\ Len(call.value.sidePots) = 2
    /\ call.value.sidePots[1].amount = 300
    /\ call.value.sidePots[1].eligiblePlayers = <<"A", "B", "C">>
    /\ call.value.sidePots[2].amount = 400
    /\ call.value.sidePots[2].eligiblePlayers = <<"B", "C">>

Holdings(q) ==
    [level |-> q.level, amount |-> q.amount, winners |-> q.winners,
     isDistributed |-> q.isDistributed, isLocked |-> q.isLocked,
     contributed |-> [r \in DOMAIN q.playerContributions |-> q.playerContributions[r].amount]]

\* C26: playerFolds(p) takes p out of the eligible set of the main pot and
\* of every side pot there is, and leaves the number of pots, every pot's
\* amount, totalAmount and the amount of every recorded contribution, p's
\* own included, as they were.
C26_FoldKeepsChips ==
    [][call'.op = "playerFolds" =>
         /\ Len(GetAllPots(potManager')) = Len(GetAllPots(potManager))
         /\ \A i \in DOMAIN GetAllPots(potManager) :
               /\ GetAllPots(potManager')[i].eligiblePlayers
                     = GetAllPots(potManager)[i].eligiblePlayers \ {call'.value[1]}
               /\ Holdings(GetAllPots(potManager')[i]) = Holdings(GetAllPots(potManager)[i])
         /\ potManager'.totalAmount = potManager.totalAmount]_vars

\* A player who has chips in the main pot and in a side pot has folded.
C26_Witness ==
    /\ call.op = "playerFolds"
    /\ Len(potManager.sidePots) >= 1
    /\ \A i \in DOMAIN GetAllPots(potManager) :
          /\ call.value[1] \notin GetAllPots(potManager)[i].eligiblePlayers
          /\ GetPlayerContribution(GetAllPots(potManager)[i], call.value[1]) > 0
          /\ ~GetAllPots(potManager)[i].playerContributions[call.value[1]].isEligible
          /\ GetAllPots(potManager)[i].eligiblePlayers # {}
    /\ potManager.totalAmount > 0

\* Some pot of the ledger holds chips and none of the given winners is
\* eligible for it.
Orphaned(pm, winners) ==
    \E i \in DOMAIN GetAllPots(pm) :
        /\ GetAllPots(pm)[i].amount > 0
        /\ Filter(winners, GetAllPots(pm)[i].eligiblePlayers) = <<>>

\* C27: distributeAllPots on a ledger not yet at showdown in which some pot
\* holds chips and has no eligible player among the supplied winners does not
\* return a distribution: it fails, and no pot with chips is passed over.
C27_NoEligibleWinnerFails ==
    [][(/\ call'.op = "distributeAllPots"
        /\ ~potManager.isShowdown
        /\ showdownCalls = 0
        /\ Orphaned(potManager, showdownArgs'[1].winners))
       => ~call'.returns]_vars

\* ------------------------------------------------ claims on a round's end
AfterRound(round) ==
    CASE round = "preflop" -> "flop"
      [] round = "flop" -> "turn"
      [] round = "turn" -> "river"
      [] OTHER -> round

\* C31: a round advance of PokerGameManager (checkRoundCompletion on a
\* betting round before the river that isRoundComplete() calls complete)
\* returns with the table in the next round, deals its cards, resets
\* hasActedThisRound and the round bet of every player in the hand and the
\* table's currentMaxBet and last raise to zero, and leaves the stacks and
\* the pot amounts as they were.
C31_AdvanceDealsAndResets ==
    [][(/\ call'.op = "checkRoundCompletion"
        /\ game.state \in Rounds
        /\ game.currentRound \in {"preflop", "flop", "turn"}
        /\ IsRoundComplete(game, players))
       => /\ call'.returns
          /\ game'.currentRound = AfterRound(game.currentRound)
          /\ \A i \in DOMAIN players' :
                 (players'[i].isInHand /\ ~players'[i].isFolded)
                 => (~players'[i].hasActedThisRound /\ players'[i].bet = 0)
          /\ game'.currentMaxBet = 0 /\ game'.lastRaiseAmount = 0
          /\ \A i \in DOMAIN players' : players'[i].chips = players[i].chips
          /\ potManager'.totalAmount = potManager.totalAmount]_vars

GAME_STATES ==
    {"lobby", "starting", "preflop", "flop", "turn", "river", "showdown",
     "distributing", "between_hands", "paused", "finished"}

\* C32: after any sequence of operations PokerGameManager.state is one of the
\* GAME_STATES values, so validateGameIntegrity reports no invalid state.
C32_StateIsAGameState == game.state \in GAME_STATES

\* C34: every hand started with startNewHand finishes in the end: the table
\* reaches the showdown, distributes the pot and is BETWEEN_HANDS or FINISHED.
C34_HandFinishes ==
    (call.op = "startNewHand") ~> (game.state \in {"between_hands", "finished"})

\* The largest bet of the round among the players in the hand.
LargestBet(ps) ==
    LET bets == {GetPlayersInHand(ps)[i].bet : i \in DOMAIN GetPlayersInHand(ps)} \cup {0}
    IN CHOOSE m \in bets : \A b \in bets : b <= m

\* C35: from the posting of the blinds onward (startNewHand leaves the table
\* in the preflop round with the blinds posted), and during every betting
\* round, currentMaxBet is the largest current-round bet among the players in
\* the hand, whatever the stacks.
C35_MaxBetIsLargestBet ==
    [][/\ call'.op = "startNewHand" => (call'.returns /\ game'.state = "preflop")
       /\ game'.state \in Rounds => game'.currentMaxBet = LargestBet(players')]_vars

\* ------------------------------------------------ claims on the engine
\* C38: in the PokerDealer/PokerGameEngine of poker-manager.js every call of
\* startHand, playerAction and advanceRound leaves the players' chips plus
\* dealer.pot unchanged, and after the showdown step (advanceRound on the
\* river) the players' chips add up to what they were before the hand,
\* whoever folded.
C38_EngineKeepsChips ==
    [][/\ StacksOf(players') + game'.pot = StacksOf(players) + game.pot
       /\ (call'.op = "advanceRound" /\ game.currentRound = "river")
          => StacksOf(players') = game.handStartTotal]_vars

\* -------------------------------------------- claims on the tournament
\* The player with userId q.
Entrant(ps, q) == ps[CHOOSE i \in DOMAIN ps : ps[i].userId = q]

\* C39: when a tournament finishes with one player left, finalRankings has
\* that player first and after them the eliminated players, the one
\* eliminated last first and the one eliminated first last, and the paid
\* places get the prizes in that order.
C39_RankingsReverseEliminations ==
    [][(/\ game.status # "finished" /\ game'.status = "finished"
        /\ Len(SelectSeq(players', LAMBDA pl : pl.isActive)) = 1)
       => LET r == game'.finalRankings
          IN /\ Len(r) = Len(players')
             /\ Entrant(players', r[1]).isActive
             /\ \A i, j \in 2..Len(r) :
                    i < j => Entrant(players', r[i]).eliminatedAt
                                > Entrant(players', r[j]).eliminatedAt
             /\ \A k \in 1..Len(r) :
                    Entrant(players', r[k]).prize
                       = IF k <= game'.paidPlaces THEN game'.prizeDistribution[k] ELSE 0]_vars

\* C40: the status becomes active only through start() with at least
\* minPlayers registered, and a finished tournament stays finished under
\* every later operation.
C40_ActiveByStartFinishedForGood ==
    [][/\ (game.status # "active" /\ game'.status = "active")
          => (call'.op = "start" /\ game.registeredCount >= MinEntrants)
       /\ game.status = "finished" => game'.status = "finished"]_vars

\* ------------------------------------------------------ claims on the clock
\* C28: when the time of a turn runs out in a betting round, the player whose
\* turn it is is folded.
C28_TimeoutFolds ==
    [][(/\ call'.op = "actionTimerTick"
        /\ game.actionTimeRemaining - 1 <= 0
        /\ game.state \in Rounds
        /\ game.currentPlayerTurn # Null
        /\ HasPlayer(players, game.currentPlayerTurn))
       => GetPlayerById(players', game.currentPlayerTurn).isFolded]_vars

\* C30: resumeGame on a paused table puts the table back in the state it was
\* paused in and leaves the round, the turn, currentMaxBet, the players'
\* stacks and bets and the pots as they are.
C30_ResumeRestores ==
    [][(call'.op = "resumeGame" /\ game.isPaused)
       => /\ game'.state = game.pausedFrom
          /\ ~game'.isPaused
          /\ game'.currentRound = game.currentRound
          /\ game'.currentPlayerTurn = game.currentPlayerTurn
          /\ game'.currentMaxBet = game.currentMaxBet
          /\ players' = players
          /\ potManager' = potManager]_vars

\* ----------------------------------------------------- claims on the dealer
\* C29: while a startNewHand of the dealer is dealing the hole cards and has
\* not yet posted the blinds, a playerAction changes no player and moves no
\* chips: no action is applied in the middle of the deal.
C29_DealIsSerialized ==
    [][(call'.op = "playerAction" /\ game.dealing.loop # 0)
       => /\ players' = players
          /\ game'.pot = game.pot
          /\ game'.currentRound = game.currentRound]_vars

\* ------------------------------------------------- claims on Pot and splits
\* C5: a pot split among N >= 1 winners gives each floor(amount / N), plus one
\* chip to each of the first (amount mod N) winners in the given order; the
\* shares differ by at most one chip and add up to the amount.
C5_SplitShares ==
    (call.op \in {"calculateDistribution", "distributePot"})
    => LET d == call.value.distribution
           N == Len(d)
           paid == [i \in DOMAIN d |-> d[i].playerId]
       IN /\ N >= 1
          /\ \A i \in DOMAIN d :
                d[i].amount = (call.amount \div N) + (IF i <= call.amount % N THEN 1 ELSE 0)
          /\ \A i, j \in DOMAIN d : d[i].amount - d[j].amount <= 1
          /\ SumSeq([i \in DOMAIN d |-> d[i].amount]) = call.amount
          /\ paid = Filter(call.value.winners, Range(paid))
          /\ call.op = "calculateDistribution" => paid = call.value.winners

C5_Witness ==
    /\ call.op \in {"calculateDistribution", "distributePot"}
    /\ call.amount = 100
    /\ Len(call.value.distribution) = 3
    /\ [i \in 1..3 |-> call.value.distribution[i].amount] = <<34, 33, 33>>

\* C7: after any sequence of addPlayerContribution, removeEligiblePlayer,
\* distributeToWinners and reset, a Pot's amount is the sum of the amounts of
\* its recorded contributions.
C7_AmountIsContributionSum == pot.amount = ContributionSum(pot)

C7_Witness ==
    /\ pot.amount >= 3
    /\ Cardinality(DOMAIN pot.playerContributions) >= 2
    /\ pot.isDistributed
    /\ \E q \in DOMAIN pot.playerContributions : ~pot.playerContributions[q].isEligible

C1_ChipConservation ==
    game.handStartTotal >= 0
    => IF game.state \in {"distributing", "between_hands"}
       THEN ChipsOf(players) = game.handStartTotal
       ELSE ChipsOf(players) + potManager.totalAmount = game.handStartTotal

\* Every player still in the hand is all-in or has acted this round with a
\* bet equal to currentMaxBet.
EverySettled ==
    \A i \in DOMAIN players :
        (players[i].isInHand /\ ~players[i].isFolded)
        => \/ players[i].isAllIn
           \/ players[i].hasActedThisRound /\ players[i].bet = game.currentMaxBet

AtMostOneInHand ==
    Cardinality({i \in DOMAIN players : players[i].isInHand /\ ~players[i].isFolded}) <= 1

InShowdown(state) == state \in {"showdown", "distributing"}

\* The round changes, or the table enters the showdown, within one hand.
RoundChanges ==
    /\ game'.handNumber = game.handNumber
    /\ \/ game'.currentRound # game.currentRound
       \/ ~InShowdown(game.state) /\ InShowdown(game'.state)

\* The change is one step of preflop, flop, turn, river, showdown.
OneRoundForward ==
    \/ /\ game.currentRound = "preflop" /\ game'.currentRound = "flop"
       /\ ~InShowdown(game'.state)
    \/ /\ game.currentRound = "flop" /\ game'.currentRound = "turn"
       /\ ~InShowdown(game'.state)
    \/ /\ game.currentRound = "turn" /\ game'.currentRound = "river"
       /\ ~InShowdown(game'.state)
    \/ /\ game.currentRound = "river" /\ game'.currentRound = "river"
       /\ InShowdown(game'.state)

\* C9 as stated: the betting round changes only in a state where every player
\* still in the hand is folded, is all-in, or has acted this round with a bet
\* equal to currentMaxBet, and it changes to the next round in order.
C9_RoundAdvancesWhenSettled ==
    [][RoundChanges => (EverySettled /\ OneRoundForward)]_vars

\* C9 amended: the betting round changes only in a state where at most one
\* player is still in the hand, or every player still in the hand is all-in
\* or has acted this round with a bet equal to currentMaxBet; it changes to
\* the next round in order, never skipping or revisiting one.
C9_RoundAdvancesWhenComplete ==
    [][RoundChanges => ((AtMostOneInHand \/ EverySettled) /\ OneRoundForward)]_vars

\* A river round that two or more players finished has gone to the showdown.
C9_Witness ==
    /\ call.op \in {"advanceTurn", "checkRoundCompletion"}
    /\ call.value.from = "river"
    /\ call.value.inHand >= 2
    /\ game.currentRound = "river"
    /\ game.state = "showdown"

\* Somebody has bet this round and is still in the hand.
BetStands ==
    \E i \in DOMAIN players :
        /\ players[i].lastAction = "bet"
        /\ players[i].isInHand /\ ~players[i].isFolded
        /\ players[i].bet = game.currentMaxBet
        /\ game.currentMaxBet > 0

\* C10: in a round where a player has bet after others checked,
\* isRoundComplete() is false while some other player still in the hand has
\* neither called (acted, with a bet equal to currentMaxBet) nor gone all-in,
\* and true once every one of them has.
C10_CompleteOnlyWhenBetMatched ==
    (call.op = "isRoundComplete" /\ BetStands)
    => (call.value <=>
          \A i \in DOMAIN players :
              (players[i].isInHand /\ ~players[i].isFolded)
              => \/ players[i].isAllIn
                 \/ players[i].hasActedThisRound /\ players[i].bet = game.currentMaxBet)

C10_Witness ==
    /\ call.op = "isRoundComplete" /\ call.value = FALSE
    /\ Len(players) = 3
    /\ players[1].lastAction = "check" /\ players[1].hasActedThisRound
    /\ players[2].lastAction = "check" /\ players[2].hasActedThisRound
    /\ players[3].lastAction = "bet" /\ players[3].bet = game.currentMaxBet

\* ------------------------------------------------------- claims on the turn
\* The players after userId going round the seats, nearest first.
ClockwiseFrom(ps, userId) ==
    LET seat == GetPlayerById(ps, userId).position
        at(k) == CHOOSE i \in DOMAIN ps : ps[i].position = (seat + k) % Len(ps)
    IN [k \in 1..(Len(ps) - 1) |-> ps[at(k)].userId]

\* The first player clockwise from userId who is in the hand, not folded, not
\* all-in and has not acted this round; Null when there is none.
NextToAct(ps, userId) ==
    LET order == ClockwiseFrom(ps, userId)
        able == {k \in DOMAIN order : CanPlayerAct(ps, order[k])}
    IN IF able = {} THEN Null
       ELSE order[CHOOSE k \in able : \A j \in able : k <= j]

\* The turn is with a player who has acted this round.
TurnHolderActed ==
    /\ HasPlayer(players, game.currentPlayerTurn)
    /\ GetPlayerById(players, game.currentPlayerTurn).hasActedThisRound

\* C11: when the player whose turn it is has acted (or folded), advanceTurn
\* gives the turn to the first player clockwise from them who is in the hand,
\* not folded, not all-in and has not yet acted this round; if there is no
\* such player the round is complete (isRoundComplete() holds).
C11_TurnGoesClockwise ==
    [][(call'.op = "advanceTurn" /\ TurnHolderActed)
       => IF NextToAct(players, game.currentPlayerTurn) # Null
          THEN game'.currentPlayerTurn = NextToAct(players, game.currentPlayerTurn)
          ELSE IsRoundComplete(game, players)]_vars

\* C33: whenever the table is in a betting round and isRoundComplete() is
\* false, currentPlayerTurn names a player who is in the hand, not folded and
\* not all-in: once the player whose turn it was has acted and advanceTurn has
\* run, an incomplete round has a player to act (after a bet, those who had
\* acted before it get the turn again).
C33_IncompleteRoundHasActor ==
    [][(/\ call'.op = "advanceTurn" /\ TurnHolderActed
        /\ game'.state \in Rounds
        /\ ~IsRoundComplete(game', players'))
       => /\ HasPlayer(players', game'.currentPlayerTurn)
          /\ GetPlayerById(players', game'.currentPlayerTurn).isInHand
          /\ ~GetPlayerById(players', game'.currentPlayerTurn).isFolded
          /\ ~GetPlayerById(players', game'.currentPlayerTurn).isAllIn]_vars

\* ---------------------------------------------------- claims on the actions
\* processPlayerAction has just been called (the step's call record).
Asked == call'.op = "processPlayerAction"

AskedAction == call'.value.args[2]

AskedAmount == call'.value.args[3]

\* The player who asked, before and after the call.
Asker == GetPlayerById(players, call'.value.args[1])

AskerAfter == GetPlayerById(players', call'.value.args[1])

\* The call is made by the player whose turn it is, who is still in the hand,
\* while the table is in a betting state.
AskedInTurn ==
    /\ Asked
    /\ game.state \in Rounds
    /\ game.currentPlayerTurn = call'.value.args[1]
    /\ Asker.isInHand /\ ~Asker.isFolded

\* C12: processPlayerAction for a player who is not currentPlayerTurn fails
\* and leaves the players, the pot ledger and the table (currentMaxBet,
\* currentPlayerTurn, round, state) unchanged.
C12_OutOfTurnRejected ==
    [][(Asked /\ call'.value.args[1] # game.currentPlayerTurn)
       => (~call'.returns /\ players' = players /\ potManager' = potManager /\ game' = game)]_vars

C12_Witness ==
    /\ call.op = "processPlayerAction" /\ ~call.returns
    /\ game.currentPlayerTurn \in Players
    /\ call.value.args[1] # game.currentPlayerTurn
    /\ call.value.args[2] = "check"
    /\ GetPlayerById(players, call.value.args[1]).hasActedThisRound
    /\ GetPlayerById(players, call.value.args[1]).isInHand
    /\ GetPlayerById(players, call.value.args[1]).bet = game.currentMaxBet

\* The rejections: a check while owing chips, a bet when currentMaxBet > 0, a
\* bet or raise with a non-positive, below-minimum or above-stack amount, an
\* unknown action.
AskedRejected ==
    \/ AskedAction = "check" /\ Asker.bet < game.currentMaxBet
    \/ AskedAction = "bet" /\ game.currentMaxBet > 0
    \/ AskedAction = "bet" /\ (AskedAmount <= 0 \/ AskedAmount < BigBlind \/ AskedAmount > Asker.chips)
    \/ /\ AskedAction = "raise"
       /\ \/ AskedAmount <= 0
          \/ AskedAmount > Asker.chips
          \/ AskedAmount < game.currentMaxBet + (IF game.lastRaiseAmount > 0
                                                 THEN game.lastRaiseAmount
                                                 ELSE game.currentMaxBet)
    \/ AskedAction \notin Actions

\* C13: a rejected action by the current player raises an error and leaves
\* the player's chips, bet, hasActedThisRound and lastAction, the pot ledger,
\* currentMaxBet and currentPlayerTurn as they were.
C13_RejectedLeavesNoTrace ==
    [][(AskedInTurn /\ AskedRejected)
       => /\ ~call'.returns
          /\ AskerAfter.chips = Asker.chips /\ AskerAfter.bet = Asker.bet
          /\ AskerAfter.hasActedThisRound = Asker.hasActedThisRound
          /\ AskerAfter.lastAction = Asker.lastAction
          /\ potManager' = potManager
          /\ game'.currentMaxBet = game.currentMaxBet
          /\ game'.currentPlayerTurn = game.currentPlayerTurn]_vars

C13_Witness ==
    /\ call.op = "processPlayerAction" /\ ~call.returns
    /\ game.state \in Rounds
    /\ call.value.args[1] = game.currentPlayerTurn
    /\ call.value.args[2] = "check"
    /\ GetPlayerById(players, call.value.args[1]).bet < game.currentMaxBet
    /\ ~GetPlayerById(players, call.value.args[1]).hasActedThisRound

\* C14: a fold by the player whose turn it is, still in the hand, is accepted:
\* the player is folded and out of the hand, their chips are unchanged and
\* the pot keeps what they contributed.
C14_FoldAccepted ==
    [][(AskedInTurn /\ AskedAction = "fold")
       => /\ call'.returns
          /\ AskerAfter.isFolded /\ ~AskerAfter.isInHand
          /\ AskerAfter.chips = Asker.chips
          /\ potManager'.totalAmount = potManager.totalAmount]_vars

\* C15: a call by the current player with chips > 0 is accepted and moves
\* min(currentMaxBet - bet, chips) from the stack to the bet and the pot; a
\* short call empties the stack and marks the player all-in.
C15_CallMovesWhatIsOwed ==
    [][(AskedInTurn /\ AskedAction = "call" /\ Asker.chips > 0)
       => LET moved == Min(game.currentMaxBet - Asker.bet, Asker.chips)
          IN /\ call'.returns
             /\ AskerAfter.chips = Asker.chips - moved
             /\ AskerAfter.bet = Asker.bet + moved
             /\ potManager'.totalAmount = potManager.totalAmount + moved
             /\ (game.currentMaxBet - Asker.bet >= Asker.chips)
                => (AskerAfter.chips = 0 /\ AskerAfter.isAllIn)]_vars

\* C16: a bet by the current player is accepted exactly when currentMaxBet
\* is 0 and BigBlind <= amount <= stack; then the stack drops by the amount
\* and the player's bet and currentMaxBet become the amount.
C16_BetAcceptedWhenOpen ==
    [][(AskedInTurn /\ AskedAction = "bet")
       => /\ call'.returns <=> (/\ game.currentMaxBet = 0
                                /\ BigBlind <= AskedAmount
                                /\ AskedAmount <= Asker.chips)
          /\ call'.returns => /\ AskerAfter.chips = Asker.chips - AskedAmount
                              /\ AskerAfter.bet = AskedAmount
                              /\ game'.currentMaxBet = AskedAmount]_vars

\* The minimum raise-to amount: currentMaxBet plus the last raise increment,
\* twice currentMaxBet when nobody has raised.
MinRaiseTo ==
    game.currentMaxBet + (IF game.lastRaiseAmount > 0 THEN game.lastRaiseAmount
                          ELSE game.currentMaxBet)

\* C17: a raise is accepted only when currentMaxBet > 0 and the raise-to
\* amount is at least MinRaiseTo, unless the whole stack is below that
\* minimum; the manager's minimum and the player's own minimum are both
\* that amount.
C17_RaiseMinimum ==
    [][(AskedInTurn /\ AskedAction = "raise" /\ game.currentMaxBet > 0)
       => /\ call'.returns => (Asker.bet + AskedAmount >= MinRaiseTo \/ Asker.chips < MinRaiseTo)
          /\ CalculateMinRaise(game) = MinRaiseTo
          /\ GetMinRaise(Asker, game.currentMaxBet) = MinRaiseTo]_vars

\* C18: an all-in by the current player with chips > 0 is accepted: the stack
\* is 0, isAllIn is true, the bet has grown by the previous stack and so has
\* the ledger's total.
C18_AllInCommitsStack ==
    [][(AskedInTurn /\ AskedAction = "allin" /\ Asker.chips > 0)
       => /\ call'.returns
          /\ AskerAfter.chips = 0 /\ AskerAfter.isAllIn
          /\ AskerAfter.bet = Asker.bet + Asker.chips
          /\ potManager'.totalAmount = potManager.totalAmount + Asker.chips]_vars

\* ------------------------------------------------------ claims on the hands
\* The rules of poker, stated on five cards without the evaluator: what
\* category five cards form and how strong they are within it.
CardsOf(cards) == {cards[i] : i \in DOMAIN cards}

FiveOf(S) ==
    IF Cardinality(S) = 5 THEN {S}
    ELSE IF Cardinality(S) = 6 THEN {S \ {c} : c \in S}
    ELSE {T \in SUBSET S : Cardinality(T) = 5}

CountOf(T, v) == Cardinality({c \in T : c.value = v})

\* count[v] is the number of cards of value v among the five
Counts(T) == [v \in {c.value : c \in T} |-> CountOf(T, v)]

IsFlushOf(T) == Cardinality({c.suit : c \in T}) = 1

IsWheel(count) == DOMAIN count = {14, 2, 3, 4, 5}

IsStraightOf(count) ==
    /\ Cardinality(DOMAIN count) = 5
    /\ \/ Highest(DOMAIN count) - Lowest(DOMAIN count) = 4
       \/ IsWheel(count)

CategoryFrom(count, flush) ==
    CASE flush /\ IsStraightOf(count) /\ {10, 14} \subseteq DOMAIN count -> RoyalFlush
      [] flush /\ IsStraightOf(count) -> StraightFlush
      [] \E v \in DOMAIN count : count[v] = 4 -> FourOfAKind
      [] Cardinality(DOMAIN count) = 2 -> FullHouse
      [] flush -> Flush
      [] IsStraightOf(count) -> Straight
      [] \E v \in DOMAIN count : count[v] = 3 -> ThreeOfAKind
      [] Cardinality(DOMAIN count) = 3 -> TwoPair
      [] Cardinality(DOMAIN count) = 4 -> OnePair
      [] OTHER -> HighCard

CategoryOf(T) == CategoryFrom(Counts(T), IsFlushOf(T))

RECURSIVE Power15(_)
Power15(n) == IF n = 0 THEN 1 ELSE 15 * Power15(n - 1)

\* n places from place `from` on, of the five places a hand is read in
Places(from, n) == (Power15(6 - from) - Power15(6 - from - n)) \div 14

\* What a value weighs: the cards of the combination before the kickers,
\* then by value, the ace of a wheel counted as one.
LowValue(v, wheel) == IF wheel /\ v = 14 THEN 1 ELSE v

ValueKey(v, count, wheel) == count[v] * 15 + LowValue(v, wheel)

\* The five cards read the way poker compares them, the values `left` from
\* place `from` on.
RECURSIVE TieKeyFrom(_, _, _, _)
TieKeyFrom(left, count, wheel, from) ==
    IF left = {} THEN 0
    ELSE LET v == CHOOSE v \in left :
                      \A w \in left : ValueKey(w, count, wheel) <= ValueKey(v, count, wheel)
         IN LowValue(v, wheel) * Places(from, count[v])
            + TieKeyFrom(left \ {v}, count, wheel, from + count[v])

TieKeyOf(count, wheel) == TieKeyFrom(DOMAIN count, count, wheel, 1)

TieKey(T) == TieKeyOf(Counts(T), IsWheel(Counts(T)))

\* Five cards are not stronger than a hand of the given category and tie
\* key: the category decides first, then the cards.
NotStronger(count, flush, category, tie) ==
    \/ CategoryFrom(count, flush) < category
    \/ /\ CategoryFrom(count, flush) = category
       /\ TieKeyOf(count, IsWheel(count)) <= tie

\* No five cards of S are stronger than a hand of that category and tie key.
NoneBeats(S, category, tie) ==
    \A T \in FiveOf(S) : NotStronger(Counts(T), IsFlushOf(T), category, tie)

Compared == call.op = "compareHands"

Category1 == CategoryOf(CardsOf(call.value.hand1.cards))

Category2 == CategoryOf(CardsOf(call.value.hand2.cards))

\* C19: of two evaluated hands of different categories compareHands puts
\* the one of the higher category above the other whatever their cards are,
\* compareHands(a, b) = -compareHands(b, a) for any two hands, and the value
\* determineWinners reads is larger for the higher category, so that the
\* winner it names is the hand of the higher category alone.
C19_CategoryDecides ==
    /\ Compared => call.value.forward = - call.value.backward
    /\ (Compared /\ Category1 > Category2) =>
          /\ call.value.forward = 1
          /\ call.value.hand1.value > call.value.hand2.value
    /\ (Compared /\ Category1 < Category2) =>
          /\ call.value.forward = -1
          /\ call.value.hand1.value < call.value.hand2.value
    /\ (call.op = "determineWinners" /\ Category1 # Category2) =>
          call.value.winners = IF Category1 > Category2 THEN <<"A">> ELSE <<"B">>

\* A flush whose highest card is a queen against a straight up to the ace.
C19_Witness ==
    /\ Compared
    /\ Category1 = Flush
    /\ Category2 = Straight
    /\ Highest(ValuesOf(call.value.hand1.cards)) = 12
    /\ Highest(ValuesOf(call.value.hand2.cards)) = 14
    /\ call.value.forward = 1
    /\ call.value.backward = -1

Evaluated == call.op = "evaluate"

Given == CardsOf(call.value.allCards)

Chosen == CardsOf(call.value.result.cards)

\* C20: evaluate on two hole cards and three to five community cards
\* returns five of the given cards that no other five of them beat, in
\* category or within the category, and reports their category (10h Jh + Qh
\* Kh Ah 2d 7c: the royal flush of hearts; 7c 7d + 7h 7s 2c 9d Kh: four
\* sevens with the king).
C20_BestFive ==
    Evaluated =>
        /\ Chosen \in FiveOf(Given)
        /\ Len(call.value.result.cards) = 5
        /\ call.value.result.rank = CategoryOf(Chosen)
        /\ NoneBeats(Given, CategoryOf(Chosen), TieKey(Chosen))
        /\ Given = {Card(10, "hearts"), Card(11, "hearts"), Card(12, "hearts"),
                    Card(13, "hearts"), Card(14, "hearts"), Card(2, "diamonds"),
                    Card(7, "clubs")}
           => /\ call.value.result.rank = RoyalFlush
              /\ Chosen = {Card(v, "hearts") : v \in 10..14}

C20_Witness ==
    /\ Evaluated
    /\ call.value.allCards = <<Card(7, "clubs"), Card(7, "diamonds"), Card(7, "hearts"),
                               Card(7, "spades"), Card(2, "clubs"), Card(9, "diamonds"),
                               Card(13, "hearts")>>
    /\ call.value.result.rank = FourOfAKind
    /\ Chosen = {Card(7, "clubs"), Card(7, "diamonds"), Card(7, "hearts"),
                 Card(7, "spades"), Card(13, "hearts")}

\* The cards of the two compared hands read the way poker compares them.
TieKey1 == TieKey(CardsOf(call.value.hand1.cards))

TieKey2 == TieKey(CardsOf(call.value.hand2.cards))

\* The categories whose combination leaves side cards, or has two parts.
WithCombination == {OnePair, TwoPair, ThreeOfAKind, FullHouse, FourOfAKind}

\* C21: between two hands of the same category the cards of the combination
\* are compared before the kickers (the higher pair, two pair, three or four
\* of a kind, or full house by its three of a kind, wins whatever the other
\* cards are), the kickers decide between equal combinations, and hands
\* that are equal card for card tie, in compareHands and in the winners
\* determineWinners names.
C21_CombinationBeforeKickers ==
    /\ (Compared /\ Category1 = Category2 /\ Category1 \in WithCombination) =>
          call.value.forward = (IF TieKey1 > TieKey2 THEN 1
                                ELSE IF TieKey1 < TieKey2 THEN -1 ELSE 0)
    /\ (call.op = "determineWinners" /\ Category1 = Category2
        /\ Category1 \in WithCombination) =>
          call.value.winners = (IF TieKey1 > TieKey2 THEN <<"A">>
                                ELSE IF TieKey1 < TieKey2 THEN <<"B">> ELSE <<"A", "B">>)

\* Player B's best five are the wheel: ace, two, three, four, five.
WheelShown == IsWheel(Counts(CardsOf(call.value.hand2.cards)))

\* C22: cards whose only straight is A-2-3-4-5 evaluate to a straight (a
\* straight flush when suited) made of those five cards, and that hand
\* compares strictly below every straight (straight flush) of the same
\* category whose top card is a six or higher, in compareHands and in the
\* value determineWinners reads.
C22_WheelIsLowest ==
    (Compared /\ WheelShown) =>
        /\ call.value.hand2.rank \in {Straight, StraightFlush}
        /\ (Category1 = Category2 /\ ~IsWheel(Counts(CardsOf(call.value.hand1.cards)))) =>
              /\ call.value.forward = 1
              /\ call.value.backward = -1
              /\ call.value.hand1.value > call.value.hand2.value

\* ------------------------------------------------------- claims on the deck
\* The cards a new deck holds, one of each suit and rank.
EveryCard == Range(NewDeckCards)

\* C23: whatever reset, shuffle, deal, burnCard and restoreUsedCards have
\* done, the undealt, the used and the burned cards are pairwise disjoint
\* and together are every card of the deck, each once.
C23_DeckPartition ==
    /\ Range(deck.cards) \intersect Range(deck.usedCards) = {}
    /\ Range(deck.cards) \intersect Range(deck.burnedCards) = {}
    /\ Range(deck.usedCards) \intersect Range(deck.burnedCards) = {}
    /\ Range(deck.cards) \union Range(deck.usedCards) \union Range(deck.burnedCards) = EveryCard
    /\ DeckEntries(deck) = Cardinality(EveryCard)

\* C24: restoreUsedCards, after any deals and burns, leaves the undealt
\* collection holding every card exactly once and the used and burned
\* collections empty.
C24_RestoredDeckIsWhole ==
    call.op = "restoreUsedCards" =>
        /\ Range(deck.cards) = EveryCard
        /\ Len(deck.cards) = Cardinality(EveryCard)
        /\ deck.usedCards = <<>>
        /\ deck.burnedCards = <<>>

\* C25: deal(n) with n above the number of undealt cards fails with an
\* error and changes nothing: the used and burned cards are not moved back
\* and the deck is not reshuffled.
C25_ShortDealFails ==
    [][(call'.op = "deal" /\ call'.amount > Len(deck.cards))
       => (~call'.returns /\ deck' = deck)]_vars

=============================================================================
